---- MODULE Spec2Model ----
(***************************************************************************)
(* Model of the message-routing core of the GPT Chrome extension:          *)
(* the BackgroundService ("Coordinator") of src/src/background/            *)
(* background.js, its tab resolution, its broadcast helper, and the        *)
(* listeners of the chat windows that receive its broadcasts.              *)
(***************************************************************************)
EXTENDS Integers, Sequences, FiniteSets, TLC

(***************************************************************************)
(* Bounds of the model.                                                    *)
(***************************************************************************)
\* Largest number of tabs chrome.tabs.query returns.
MaxTabs == 2
\* Largest lastAccessed timestamp of a tab.
MaxAccess == 1
\* Largest number of tabs open while the Coordinator handles messages.
MaxOpenTabs == 1
\* Resolution of Math.random(): it yields a multiple of 1 / RandomUnit.
RandomUnit == 1000
\* The API client's cap on the turns kept of one conversation.
HistoryCap == 4
\* Largest number of chat requests sent.
MaxChatRequests == 3
\* Largest number of exception entries in the captured list of a tab.
MaxExceptions == 2
\* The number of times the chat window runs getDebugInfo.
MaxDebugRuns == 2
\* The step of the clock of a page load and the time at which it stops, in
\* milliseconds.
ClockStep == 1000
MaxClock == 14000

VARIABLES
    storage,     \* chrome.storage.local: the value under "openai_api_key"
    gptKey,      \* the API client's active credential (GPTService)
    init,        \* position of init() / initializeGPTService()
    handler,     \* per message channel: the handleMessage invocation
    responses,   \* per message channel: the sendResponse calls made
    broadcasts,  \* per message channel: the broadcasts issued
    apiCalls,    \* per message channel: credentials of the network calls
    escaped,     \* per message channel: an exception left handleMessage
    isRunning,   \* lighthouseService.isRunning
    results,     \* lighthouseService.results
    logTabs,     \* tabs that have an entry in tabConsoleLogs
    tabSet,      \* tab resolution: the result of chrome.tabs.query({})
    selected,    \* tab resolution: the tab chosen
    resolvedBy,  \* tab resolution: the handler whose copy chose it
    tabReply,    \* tab resolution: what the handler did when no tab was chosen
    inbox,       \* listeners: the message chrome.runtime delivers
    heard,       \* listeners: what each listening context did with it
    writers,     \* front surfaces: the contexts that wrote the stored credential
    callers,     \* front surfaces: the contexts that called the API client's sendRequest
    popupSaved,  \* front surfaces: the key PopupApp has stored and not yet announced
    chatWaits,   \* front surfaces: the channel on which the chat window awaits the key
    scoreInput,  \* scores: the page's values and the Math.random() values of a call
    auditResult, \* scores: the AuditResult computed from them
    history,     \* chat: the API client's turns kept, per conversationId
    turnCount,   \* chat: the number of turns recorded, per conversationId
    messages,    \* chat: the chat window's message list (the type of each entry)
    isLoading,   \* chat: the chat window's isLoading
    awaiting,    \* chat: the channels whose response the chat window awaits
    asked,       \* chat: the number of chat requests sent
    tabConsoleLogs, \* capture: tabConsoleLogs[tabId] of the tab with a debugger listener
    pageLoad,    \* page load: the promise, listener and timers of waitForPageLoad
    debugInfo    \* debug flow: the chat window's getDebugInfo

vars == <<storage, gptKey, init, handler, responses, broadcasts, apiCalls,
          escaped, isRunning, results, logTabs, tabSet, selected, resolvedBy, tabReply,
          inbox, heard, writers, callers, popupSaved, chatWaits,
          scoreInput, auditResult,
          history, turnCount, messages, isLoading, awaiting, asked,
          tabConsoleLogs, pageLoad, debugInfo>>

coordVars == <<storage, gptKey, init, handler, responses, broadcasts,
               apiCalls, escaped, isRunning, results, logTabs>>
tabVars == <<tabSet, selected, resolvedBy, tabReply>>
listenerVars == <<inbox, heard>>
surfaceVars == <<writers, callers, popupSaved, chatWaits>>
scoreVars == <<scoreInput, auditResult>>
chatVars == <<history, turnCount, messages, isLoading, awaiting, asked>>
eventVars == <<tabConsoleLogs, pageLoad, debugInfo>>

(***************************************************************************)
(* JavaScript values.                                                      *)
(***************************************************************************)
\* The property is absent / the value is undefined or null.
NoAccess == 0 - 1

\* Strings whose content the code inspects are sequences of tokens, so that
\* startsWith and trim are computed, not looked up.
StartsWith(s, prefix) ==
    /\ Len(s) >= Len(prefix)
    /\ SubSeq(s, 1, Len(prefix)) = prefix

\* (x || 0) of the sort comparator.
OrZero(x) == IF x = NoAccess THEN 0 ELSE x

(***************************************************************************)
(* Tabs.                                                                   *)
(***************************************************************************)
WebUrl    == <<"https", "://", "example.com/">>
ExtUrl    == <<"chrome-extension", "://", "abcdef/gpt-popup.html">>
ChromeUrl == <<"chrome", "://", "settings">>
MozUrl    == <<"moz-extension", "://", "abcdef/popup.html">>
AboutUrl  == <<"about:blank">>
Urls      == {WebUrl, ExtUrl, ChromeUrl, MozUrl, AboutUrl}

AccessVals == {NoAccess} \cup (0..MaxAccess)

\* What chrome.tabs.query reports of a tab, but for its id.
TabProps == [url : Urls, active : BOOLEAN, lastAccessed : AccessVals]

\* The result of chrome.tabs.query: the id of a tab is its position in the
\* result, so that ids are unique.
WithIds(props) ==
    [i \in DOMAIN props |->
        [id |-> i, url |-> props[i].url, active |-> props[i].active,
         lastAccessed |-> props[i].lastAccessed]]

TabListsOfLen(n) == {WithIds(props) : props \in [1..n -> TabProps]}

\* No tab was selected (tab is undefined).
NoTab == [id |-> 0, url |-> <<>>, active |-> FALSE, lastAccessed |-> NoAccess]

\* Mutant: the filter forgets the browser's own pages.
IsWebTabChromeKept(tab) ==
    /\ ~StartsWith(tab.url, <<"chrome-extension", "://">>)
    /\ ~StartsWith(tab.url, <<"moz-extension", "://">>)

\* The filter predicate of tabs.filter(...) in the three handlers.
IsWebTab(tab) ==
    /\ ~StartsWith(tab.url, <<"chrome-extension", "://">>)
    /\ ~StartsWith(tab.url, <<"chrome", "://">>)
    /\ ~StartsWith(tab.url, <<"moz-extension", "://">>)

\* Array.prototype.filter: keeps the order.
RECURSIVE FilterWebTabs(_)
FilterWebTabs(tabs) ==
    IF tabs = <<>> THEN <<>>
    ELSE IF IsWebTab(Head(tabs))
         THEN <<Head(tabs)>> \o FilterWebTabs(Tail(tabs))
         ELSE FilterWebTabs(Tail(tabs))

\* The predicate (t) => t.active.
IsActive(t) == t.active

\* Array.prototype.find: the first element that satisfies the predicate.
RECURSIVE FindActive(_)
FindActive(tabs) ==
    IF tabs = <<>> THEN NoTab
    ELSE IF IsActive(Head(tabs)) THEN Head(tabs)
         ELSE FindActive(Tail(tabs))

\* Mutant: the comparator sorts the least recently accessed tab first.
CompareAccessAscending(a, b) == OrZero(a.lastAccessed) - OrZero(b.lastAccessed)

\* The comparator (a, b) => (b.lastAccessed || 0) - (a.lastAccessed || 0).
CompareAccess(a, b) == OrZero(b.lastAccessed) - OrZero(a.lastAccessed)

\* Inserts t into the sorted list after every element that does not compare
\* greater: Array.prototype.sort is stable.
RECURSIVE InsertSorted(_, _)
InsertSorted(t, sorted) ==
    IF sorted = <<>> THEN <<t>>
    ELSE IF CompareAccess(Head(sorted), t) <= 0
         THEN <<Head(sorted)>> \o InsertSorted(t, Tail(sorted))
         ELSE <<t>> \o sorted

RECURSIVE SortByAccess(_)
SortByAccess(tabs) ==
    IF tabs = <<>> THEN <<>>
    ELSE InsertSorted(tabs[Len(tabs)], SortByAccess(SubSeq(tabs, 1, Len(tabs) - 1)))

\* Mutant: the most recently accessed web tab, active or not.
SelectTabMostRecent(tabs) ==
    LET webTabs == FilterWebTabs(tabs)
    IN  IF Len(webTabs) > 0 THEN SortByAccess(webTabs)[1] ELSE NoTab

\* Tab resolution of GET_CURRENT_PAGE.
SelectTabCurrentPage(tabs) ==
    LET webTabs == FilterWebTabs(tabs)
        tab     == FindActive(webTabs)
    IN  IF tab = NoTab /\ Len(webTabs) > 0
        THEN SortByAccess(webTabs)[1]
        ELSE tab

\* Mutant: without an active web tab, the first web tab is taken unsorted.
SelectTabSetupLoggingUnsorted(tabs) ==
    LET webTabs == FilterWebTabs(tabs)
        tab     == FindActive(webTabs)
    IN  IF tab = NoTab /\ Len(webTabs) > 0
        THEN webTabs[1]
        ELSE tab

\* Tab resolution of SETUP_CONSOLE_LOGGING.
SelectTabSetupLogging(tabs) ==
    LET webTabs == FilterWebTabs(tabs)
        tab     == FindActive(webTabs)
    IN  IF tab = NoTab /\ Len(webTabs) > 0
        THEN SortByAccess(webTabs)[1]
        ELSE tab

\* Tab resolution of API_GET_CONSOLE_LOGS.
SelectTabConsoleLogs(tabs) ==
    LET webTabs == FilterWebTabs(tabs)
        tab     == FindActive(webTabs)
    IN  IF tab = NoTab /\ Len(webTabs) > 0
        THEN SortByAccess(webTabs)[1]
        ELSE tab


\* What the tab resolution of each handler can yield, over every result of
\* chrome.tabs.query({}).
QueryResults == UNION {TabListsOfLen(n) : n \in 0..MaxOpenTabs}
CurrentPageSelections == {SelectTabCurrentPage(queried) : queried \in QueryResults}
SetupLoggingSelections == {SelectTabSetupLogging(queried) : queried \in QueryResults}
ConsoleLogsSelections == {SelectTabConsoleLogs(queried) : queried \in QueryResults}

(***************************************************************************)
(* Credentials.                                                            *)
(***************************************************************************)
\* undefined / null: no value.
NoKey == <<"undefined">>
EmptyKey == <<>>
BlankKey == <<" ">>
TestKey  == <<"sk-", "test">>
\* The credentials a SET_API_KEY message carries.
Keys == {EmptyKey, BlankKey, TestKey}

\* JavaScript truthiness of a string or undefined.
Truthy(k) == k # NoKey /\ k # EmptyKey

\* String.prototype.trim: strips the white space at both ends.
RECURSIVE TrimStart(_)
TrimStart(k) ==
    IF k # <<>> /\ Head(k) = " " THEN TrimStart(Tail(k)) ELSE k

RECURSIVE TrimEnd(_)
TrimEnd(k) ==
    IF k # <<>> /\ k[Len(k)] = " " THEN TrimEnd(SubSeq(k, 1, Len(k) - 1)) ELSE k

Trim(k) == TrimEnd(TrimStart(k))

\* getStoredApiKey: result.openai_api_key || null.
GetStoredApiKey(stored) == IF Truthy(stored) THEN stored ELSE NoKey

\* GPTService.setApiKey: replaces the active credential.
SetApiKey(current, key) == key

\* The constructor assigns gptService and lighthouseService and nothing
\* else: this.debugLogger is undefined.
DebugLoggerDefined == FALSE

(***************************************************************************)
(* Error messages.                                                         *)
(***************************************************************************)
ConfigError ==
    "OpenAI API key not configured. Please set your API key in the extension popup."
ClientConfigError == "API key not set"
UnknownTypeError == "Unknown message type"
NoPageSetupError == "No web page found to setup console logging"
NoPageLogsError == "No web page found"
NoActiveTabError == "No active tab found"
AlreadyRunningError == "Lighthouse audit is already running"
\* TypeError of reading a property of undefined.
DataTypeError == "Cannot read properties of undefined (reading 'apiKey')"
UrlTypeError == "Cannot read properties of undefined (reading 'url')"
RequestTypeError == "Cannot read properties of undefined (reading 'message')"
LoggerTypeError == "Cannot read properties of undefined (reading 'log')"
\* Errors the browser and the remote API report.
StorageError == "Storage operation failed"
QueryError == "Tabs cannot be queried"
UpstreamError == "Incorrect API key provided"

(***************************************************************************)
(* Messages and responses.                                                 *)
(***************************************************************************)
Types == {"GPT_REQUEST", "GET_API_KEY", "SET_API_KEY", "SETUP_CONSOLE_LOGGING",
          "API_GET_CONSOLE_LOGS", "GET_CURRENT_PAGE", "RUN_LIGHTHOUSE_AUDIT",
          "LIGHTHOUSE_REQUEST", "UNKNOWN_TYPE"}

\* A message {type, data}: hasData is FALSE when data is missing; the other
\* fields are those of data that the handler of the type reads.
Msg(type, hasData, apiKey, includeLogs, includeContent, hasUrl) ==
    [type |-> type, hasData |-> hasData, apiKey |-> apiKey,
     includeLogs |-> includeLogs, includeContent |-> includeContent,
     hasUrl |-> hasUrl]

PlainMsg(type, hasData) == Msg(type, hasData, NoKey, FALSE, FALSE, FALSE)

\* The messages delivered to the Coordinator: of every type, without data
\* and, for the types whose handler reads data, with it.
Messages ==
    {PlainMsg(t, FALSE) : t \in Types}
    \cup {PlainMsg("GPT_REQUEST", TRUE)}
    \cup {Msg("SET_API_KEY", TRUE, k, FALSE, FALSE, FALSE) : k \in Keys}
    \cup {Msg("GET_CURRENT_PAGE", TRUE, NoKey, l, c, FALSE) : l, c \in BOOLEAN}
    \cup {Msg("RUN_LIGHTHOUSE_AUDIT", TRUE, NoKey, FALSE, FALSE, u) : u \in BOOLEAN}
    \cup {Msg("LIGHTHOUSE_REQUEST", TRUE, NoKey, FALSE, FALSE, TRUE)}

NoMsg == PlainMsg("none", FALSE)

\* The payload of a response or of a broadcast.
Data(kind, key, tab, logs, content) ==
    [kind |-> kind, key |-> key, tab |-> tab, logs |-> logs, content |-> content]

NoData == Data("none", NoKey, 0, "null", "null")

\* A response object, with the set of its own properties.
Response(fields, success, error, data) ==
    [fields |-> fields, success |-> success, error |-> error, data |-> data]

\* { success: true }
Ok == Response({"success"}, TRUE, "", NoData)
\* { success: true, data: d }
OkData(d) == Response({"success", "data"}, TRUE, "", d)
\* { success: true, results: d }
OkResults(d) == Response({"success", "results"}, TRUE, "", d)
\* { success: false, error: e }
Failure(e) == Response({"success", "error"}, FALSE, e, NoData)
\* { success: false, error: e, data: d }
FailureData(e, d) == Response({"success", "error", "data"}, FALSE, e, d)


(***************************************************************************)
(* What a run of a piece of handler code produced: the broadcasts it sent, *)
(* the sendResponse calls it made, and the exception it ended with, if     *)
(* any (thrown is <<>> or <<error.message>>).                              *)
(***************************************************************************)
Effect(sent, resps, thrown) == [sent |-> sent, resps |-> resps, thrown |-> thrown]

\* Mutant: the path returns without calling sendResponse.
RepliedNothing(resp) == Effect(<<>>, <<>>, <<>>)

\* sendResponse(resp), and nothing else.
Replied(resp) == Effect(<<>>, <<resp>>, <<>>)
Thrown(e) == Effect(<<>>, <<>>, <<e>>)

\* The message sendToPopupWindow hands to chrome.runtime.sendMessage, and how
\* that call ended.
Broadcast(type, error, data, outcome) ==
    [type |-> type, target |-> "gpt-popup", error |-> error, data |-> data,
     outcome |-> outcome]

\* chrome.runtime.sendMessage: a listener took the message, the promise was
\* rejected because no listener exists, or the call itself threw.
SendOutcomes == {"delivered", "rejected", "threw"}

SendError == "Could not establish connection. Receiving end does not exist."

\* Mutant: no try block around the call, so that its exception reaches the
\* caller.
SendToPopupWindowUncaught(type, error, data, outcome) ==
    Effect(<<Broadcast(type, error, data, outcome)>>, <<>>,
           IF outcome = "threw" THEN <<SendError>> ELSE <<>>)

\* sendToPopupWindow: the rejection is handled by .catch, the exception by
\* the try block around the call.
SendToPopupWindow(type, error, data, outcome) ==
    Effect(<<Broadcast(type, error, data, outcome)>>, <<>>, <<>>)

\* Mutant: the catch block responds and does not broadcast.
GptCatchNoBroadcast(e, outcome) == Effect(<<>>, <<Failure(e)>>, <<>>)

\* The catch block of the GPT_REQUEST case: broadcast, then respond.
GptCatch(e, outcome) ==
    LET b == SendToPopupWindow("GPT_RESPONSE", e, NoData, outcome)
    IN  IF b.thrown # <<>> THEN b
        ELSE Effect(b.sent, <<Failure(e)>>, <<>>)

\* Mutant: the broadcast carries the request's outcome only on failure.
GptDeliverBareBroadcast(response, outcome) ==
    Effect(<<Broadcast("GPT_RESPONSE", "", NoData, outcome)>>,
           <<OkData(response)>>, <<>>)

\* The end of the try block of the GPT_REQUEST case: broadcast, then respond.
GptDeliver(response, outcome) ==
    LET b == SendToPopupWindow("GPT_RESPONSE", "", response, outcome)
    IN  IF b.thrown # <<>>
        THEN LET c == GptCatch(b.thrown[1], outcome)
             IN  Effect(b.sent \o c.sent, c.resps, c.thrown)
        ELSE Effect(b.sent, <<OkData(response)>>, <<>>)

\* Mutant: no catch-all, so that the exception leaves handleMessage.
OuterCatchRethrow(effect) == effect

\* The catch-all of handleMessage: an exception that reaches it is answered
\* with { success: false, error: error.message }.
OuterCatch(effect) ==
    IF effect.thrown = <<>> THEN effect
    ELSE Effect(effect.sent, effect.resps \o <<Failure(effect.thrown[1])>>, <<>>)

\* The handler goes on: nothing was sent, answered or thrown.
Continues == Effect(<<>>, <<>>, <<>>)

\* Mutant: tab.id is read without the check of tab, and the TypeError is
\* answered by the catch block of the case.
PageNoTabUnchecked ==
    Replied(Failure("Cannot read properties of undefined (reading 'id')"))

\* if (!tab) of SETUP_CONSOLE_LOGGING.
SetupNoTab == Replied(Failure(NoPageSetupError))
\* if (!tab) of API_GET_CONSOLE_LOGS.
LogsNoTab ==
    Replied(FailureData(NoPageLogsError, Data("logs", NoKey, 0, "empty", "null")))
\* The else branch of if (tab) of GET_CURRENT_PAGE.
PageNoTab == Replied(Failure(NoActiveTabError))

\* What a handler does once its tab resolution has chosen: it responds at
\* once when no tab was chosen, and goes on with the tab otherwise.
AfterResolution(tab, noTab) == IF tab = NoTab THEN OuterCatch(noTab) ELSE Continues

(***************************************************************************)
(* The Coordinator.                                                        *)
(***************************************************************************)
\* The message channels on which handleMessage invocations are in flight.
Reqs == {1, 2}

\* this.results = null
NoResults == <<>>

Idle == [pc |-> "idle", msg |-> NoMsg, apiKey |-> NoKey, tab |-> 0, logs |-> "null",
         tempTab |-> "none", attached |-> FALSE, auditError |-> "",
         resultsWindow |-> "none", wrote |-> FALSE, besideSetKey |-> FALSE]

\* The state after new BackgroundService(): the listener is registered and
\* initializeGPTService awaits the stored credential.  The store holds what
\* an earlier session left in it.
CoordInit ==
    /\ storage \in {NoKey} \cup Keys
    /\ gptKey = NoKey
    /\ init = [pc |-> "get", apiKey |-> NoKey]
    /\ handler = [r \in Reqs |-> Idle]
    /\ responses = [r \in Reqs |-> <<>>]
    /\ broadcasts = [r \in Reqs |-> <<>>]
    /\ apiCalls = [r \in Reqs |-> <<>>]
    /\ escaped = [r \in Reqs |-> FALSE]
    /\ isRunning = FALSE
    /\ results = NoResults
    /\ logTabs = {}

\* initializeGPTService, up to the credential read.
InitGet ==
    /\ init.pc = "get"
    /\ \E ok \in BOOLEAN :
         LET apiKey == GetStoredApiKey(storage)
         IN  init' = IF ok /\ Truthy(apiKey)
                     THEN [pc |-> "set", apiKey |-> apiKey]
                     ELSE [pc |-> "done", apiKey |-> NoKey]
    /\ UNCHANGED <<storage, gptKey, handler, responses, broadcasts, apiCalls,
                   escaped, isRunning, results, logTabs>>

\* initializeGPTService: gptService.setApiKey(apiKey).
InitSet ==
    /\ init.pc = "set"
    /\ gptKey' = SetApiKey(gptKey, init.apiKey)
    /\ init' = [pc |-> "done", apiKey |-> NoKey]
    /\ UNCHANGED <<storage, handler, responses, broadcasts, apiCalls,
                   escaped, isRunning, results, logTabs>>

\* The state of the Coordinator that the handler of a type reads or writes.
Touches(type) ==
    CASE type \in {"GPT_REQUEST", "GET_API_KEY", "SET_API_KEY"} -> {"credential"}
      [] type \in {"SETUP_CONSOLE_LOGGING", "API_GET_CONSOLE_LOGS",
                   "GET_CURRENT_PAGE"} -> {"tabConsoleLogs"}
      [] type \in {"RUN_LIGHTHOUSE_AUDIT", "LIGHTHOUSE_REQUEST"} -> {"isRunning"}
      [] OTHER -> {}

\* Invocations are interleaved when they can interfere; an invocation that
\* shares no state with the one in flight is started after it has returned,
\* and one that does not touch the credential after initializeGPTService.
\* What the handlers of one family leave behind is neither read nor written
\* by those of another, so each family is run against one state of the
\* others: the handlers of the credential while no console capture and no
\* audit result exists, the audits while no console capture exists, the
\* handlers of console capture while no audit result exists, and the latter
\* two while no credential is stored.
Interleaved(r, m) ==
    /\ \A q \in Reqs \ {r} :
        handler[q].pc = "idle" \/ Touches(handler[q].msg.type) \cap Touches(m.type) # {}
    /\ "credential" \in Touches(m.type) \/ Touches(m.type) = {} \/ init.pc = "done"
    /\ "credential" \in Touches(m.type) => logTabs = {} /\ results = NoResults
    /\ "isRunning" \in Touches(m.type) => logTabs = {} /\ storage = NoKey
    /\ "tabConsoleLogs" \in Touches(m.type) => results = NoResults /\ storage = NoKey

\* The listener of setupMessageHandlers calls handleMessage with the message.
\* The invocation for m starts while something else that sets the client's
\* credential is under way: initializeGPTService or a SET_API_KEY.  The
\* field besideSetKey of an invocation keeps this, and becomes true when a
\* SET_API_KEY starts beside it: it is a record of what ran when, which no
\* handler reads.
BesideSetKey(r, m) ==
    \/ init.pc # "done"
    \/ \E q \in Reqs \ {r} : handler[q].msg.type = "SET_API_KEY"

Dispatch(r, m) ==
    /\ handler[r].pc = "idle"
    /\ Interleaved(r, m)
    /\ handler' = [q \in Reqs |->
                      IF q = r
                      THEN [Idle EXCEPT !.pc = "start", !.msg = m,
                                        !.besideSetKey = BesideSetKey(r, m)]
                      ELSE IF m.type = "SET_API_KEY"
                      THEN [handler[q] EXCEPT !.besideSetKey = (handler[q].pc # "idle")]
                      ELSE handler[q]]
    /\ UNCHANGED <<storage, gptKey, init, responses, broadcasts, apiCalls,
                   escaped, isRunning, results, logTabs>>

\* handleMessage has returned and the channel of the message is closed.
Close(r) ==
    /\ handler[r].pc = "done"
    /\ handler' = [handler EXCEPT ![r] = Idle]
    /\ responses' = [responses EXCEPT ![r] = <<>>]
    /\ broadcasts' = [broadcasts EXCEPT ![r] = <<>>]
    /\ apiCalls' = [apiCalls EXCEPT ![r] = <<>>]
    /\ escaped' = [escaped EXCEPT ![r] = FALSE]
    /\ UNCHANGED <<storage, gptKey, init, isRunning, results, logTabs>>

\* A channel is closed before anything else runs: what a returned
\* invocation left behind is looked at once, in the state it returned in.
Returned == \E r \in Reqs : handler[r].pc = "done"

At(r, type, pc) == handler[r].msg.type = type /\ handler[r].pc = pc

\* handleMessage has returned.
Done(r) == handler[r].pc = "done"
DoneOf(r, type) == Done(r) /\ handler[r].msg.type = type

\* handleMessage returns: what the code run in this step produced goes
\* through the catch-all.
Finish(r, effect) ==
    LET e == OuterCatch(effect)
    IN  /\ handler' = [handler EXCEPT ![r].pc = "done"]
        /\ responses' = [responses EXCEPT ![r] = @ \o e.resps]
        /\ broadcasts' = [broadcasts EXCEPT ![r] = @ \o e.sent]
        /\ escaped' = [escaped EXCEPT ![r] = e.thrown # <<>>]

\* handleMessage goes on to its next await.
Goto(r, pc) ==
    /\ handler' = [handler EXCEPT ![r].pc = pc]
    /\ UNCHANGED <<responses, broadcasts, escaped>>

\* The next position of an invocation whose own record becomes h.
GotoWith(r, h, pc) ==
    /\ handler' = [handler EXCEPT ![r] = [h EXCEPT !.pc = pc]]
    /\ UNCHANGED <<responses, broadcasts, escaped>>

\* handleMessage returns, the invocation's own record having become h.
FinishWith(r, h, effect) ==
    LET e == OuterCatch(effect)
    IN  /\ handler' = [handler EXCEPT ![r] = [h EXCEPT !.pc = "done"]]
        /\ responses' = [responses EXCEPT ![r] = @ \o e.resps]
        /\ broadcasts' = [broadcasts EXCEPT ![r] = @ \o e.sent]
        /\ escaped' = [escaped EXCEPT ![r] = e.thrown # <<>>]

(***************************************************************************)
(* GPT_REQUEST                                                             *)
(***************************************************************************)
\* await this.getStoredApiKey(), and the check of the credential.
GptGetKey(r) ==
    /\ At(r, "GPT_REQUEST", "start")
    /\ \E ok \in BOOLEAN, outcome \in SendOutcomes :
         LET apiKey == GetStoredApiKey(storage)
         IN  IF ~ok THEN Finish(r, GptCatch(StorageError, outcome))
             ELSE IF ~Truthy(apiKey) THEN Finish(r, GptCatch(ConfigError, outcome))
             ELSE /\ handler' = [handler EXCEPT ![r].pc = "setKey", ![r].apiKey = apiKey]
                  /\ UNCHANGED <<responses, broadcasts, escaped>>
    /\ UNCHANGED <<storage, gptKey, init, apiCalls, isRunning, results, logTabs>>

\* await this.gptService.setApiKey(apiKey).
GptSetKey(r) ==
    /\ At(r, "GPT_REQUEST", "setKey")
    /\ gptKey' = SetApiKey(gptKey, handler[r].apiKey)
    /\ Goto(r, "send")
    /\ UNCHANGED <<storage, init, apiCalls, isRunning, results, logTabs>>

\* Mutant: sendRequest is entered only while no other invocation is inside
\* it.
GptSendSerialized(r) ==
    /\ At(r, "GPT_REQUEST", "send")
    /\ \A q \in Reqs \ {r} : ~At(q, "GPT_REQUEST", "net")
    /\ \E outcome \in SendOutcomes :
         IF ~handler[r].msg.hasData
         THEN Finish(r, GptCatch(RequestTypeError, outcome)) /\ UNCHANGED apiCalls
         ELSE IF ~Truthy(gptKey)
         THEN Finish(r, GptCatch(ClientConfigError, outcome)) /\ UNCHANGED apiCalls
         ELSE /\ apiCalls' = [apiCalls EXCEPT ![r] = Append(@, gptKey)]
              /\ Goto(r, "net")
    /\ UNCHANGED <<storage, gptKey, init, isRunning, results, logTabs>>

\* gptService.sendRequest(message.data), up to the network call: it fails
\* with a configuration error when the client has no credential.
GptSend(r) ==
    /\ At(r, "GPT_REQUEST", "send")
    /\ \E outcome \in SendOutcomes :
         IF ~handler[r].msg.hasData
         THEN Finish(r, GptCatch(RequestTypeError, outcome)) /\ UNCHANGED apiCalls
         ELSE IF ~Truthy(gptKey)
         THEN Finish(r, GptCatch(ClientConfigError, outcome)) /\ UNCHANGED apiCalls
         ELSE /\ apiCalls' = [apiCalls EXCEPT ![r] = Append(@, gptKey)]
              /\ Goto(r, "net")
    /\ UNCHANGED <<storage, gptKey, init, isRunning, results, logTabs>>

\* The network call settles, and handleMessage broadcasts and responds.
GptNet(r) ==
    /\ At(r, "GPT_REQUEST", "net")
    /\ \E ok \in BOOLEAN, outcome \in SendOutcomes :
         IF ok
         THEN Finish(r, GptDeliver(Data("completion", NoKey, 0, "null", "text"), outcome))
         ELSE Finish(r, GptCatch(UpstreamError, outcome))
    /\ UNCHANGED <<storage, gptKey, init, apiCalls, isRunning, results, logTabs>>

(***************************************************************************)
(* GET_API_KEY, SET_API_KEY                                                *)
(***************************************************************************)
GetApiKey(r) ==
    /\ At(r, "GET_API_KEY", "start")
    /\ \E ok \in BOOLEAN :
         IF ok
         THEN Finish(r, Replied(OkData(
                  Data("apiKey", GetStoredApiKey(storage), 0, "null", "null"))))
         ELSE Finish(r, Thrown(StorageError))
    /\ UNCHANGED <<storage, gptKey, init, apiCalls, isRunning, results, logTabs>>

\* storeApiKey, up to the write: chrome.storage.local.set.
SetApiKeyStore(r) ==
    /\ At(r, "SET_API_KEY", "start")
    /\ LET m == handler[r].msg
       IN  IF ~m.hasData
           THEN Finish(r, Thrown(DataTypeError)) /\ UNCHANGED storage
           ELSE \E ok \in BOOLEAN :
                  IF ~ok
                  THEN Finish(r, Thrown(StorageError)) /\ UNCHANGED storage
                  ELSE /\ storage' = m.apiKey
                       /\ LET h == [handler[r] EXCEPT !.wrote = (m.apiKey # storage)]
                          IN  IF Truthy(m.apiKey) /\ Truthy(Trim(m.apiKey))
                              THEN GotoWith(r, h, "setKey")
                              ELSE FinishWith(r, h, Replied(Ok))
    /\ UNCHANGED <<gptKey, init, apiCalls, isRunning, results, logTabs>>

\* storeApiKey after the write: gptService.setApiKey(apiKey), then
\* this.debugLogger.log(...); then sendResponse({ success: true }).
SetApiKeyMirror(r) ==
    /\ At(r, "SET_API_KEY", "setKey")
    /\ gptKey' = SetApiKey(gptKey, handler[r].msg.apiKey)
    /\ IF DebugLoggerDefined
       THEN Finish(r, Replied(Ok))
       ELSE Finish(r, Thrown(LoggerTypeError))
    /\ UNCHANGED <<storage, init, apiCalls, isRunning, results, logTabs>>


(***************************************************************************)
(* SETUP_CONSOLE_LOGGING                                                   *)
(***************************************************************************)
\* chrome.tabs.query({}) settles and the tab is resolved.
SetupQuery(r) ==
    /\ At(r, "SETUP_CONSOLE_LOGGING", "start")
    /\ \/ Finish(r, Replied(Failure(QueryError)))
       \/ \E tab \in SetupLoggingSelections :
                IF tab = NoTab
                THEN Finish(r, SetupNoTab)
                ELSE /\ handler' = [handler EXCEPT ![r].pc = "attach", ![r].tab = tab.id]
                     /\ UNCHANGED <<responses, broadcasts, escaped>>
    /\ UNCHANGED <<storage, gptKey, init, apiCalls, isRunning, results, logTabs>>

SetupCompleted == OkData(Data("Console logging setup completed", NoKey, 0, "null", "null"))

\* setupConsoleLogging: the callback of chrome.debugger.attach.  On
\* lastError the promise resolves with { error } and the handler, which
\* does not read the resolved value, responds.
SetupAttach(r) ==
    /\ At(r, "SETUP_CONSOLE_LOGGING", "attach")
    /\ \/ Finish(r, Replied(SetupCompleted))
       \/ Goto(r, "enable")
    /\ UNCHANGED <<storage, gptKey, init, apiCalls, isRunning, results, logTabs>>

\* setupConsoleLogging: the callback of Runtime.enable.  On lastError the
\* debugger is detached; otherwise the log list of the tab exists from now
\* on and the event listener is registered.
SetupEnable(r) ==
    /\ At(r, "SETUP_CONSOLE_LOGGING", "enable")
    /\ \/ UNCHANGED logTabs
       \/ logTabs' = logTabs \cup {handler[r].tab}
    /\ Finish(r, Replied(SetupCompleted))
    /\ UNCHANGED <<storage, gptKey, init, apiCalls, isRunning, results>>

(***************************************************************************)
(* API_GET_CONSOLE_LOGS                                                    *)
(***************************************************************************)
\* getConsoleLogsFromTab: the captured list, or the note that nothing is
\* captured for the tab.
GetConsoleLogsFromTab(captured, tabId) ==
    IF tabId \in captured THEN "captured" ELSE "not initialized"

LogsQuery(r) ==
    /\ At(r, "API_GET_CONSOLE_LOGS", "start")
    /\ \/ Finish(r, Replied(FailureData(QueryError, Data("logs", NoKey, 0, "empty", "null"))))
       \/ \E tab \in ConsoleLogsSelections :
                IF tab = NoTab
                THEN Finish(r, LogsNoTab)
                ELSE /\ handler' = [handler EXCEPT
                            ![r].pc = "analysis", ![r].tab = tab.id,
                            ![r].logs = GetConsoleLogsFromTab(logTabs, tab.id)]
                     /\ UNCHANGED <<responses, broadcasts, escaped>>
    /\ UNCHANGED <<storage, gptKey, init, apiCalls, isRunning, results, logTabs>>

\* getDetailedPageAnalysis settles: with the analysis, or with an error.
LogsAnalysis(r) ==
    /\ At(r, "API_GET_CONSOLE_LOGS", "analysis")
    /\ \E analysis \in {"analysis", "null"} :
         Finish(r, Replied(OkData(
             Data("logs", NoKey, handler[r].tab, handler[r].logs, analysis))))
    /\ UNCHANGED <<storage, gptKey, init, apiCalls, isRunning, results, logTabs>>

(***************************************************************************)
(* GET_CURRENT_PAGE                                                        *)
(***************************************************************************)
PageData(tabId, logs, content) == OkData(Data("page", NoKey, tabId, logs, content))

\* Mutant: the logs are retrieved whenever a tab was chosen.
PageLogsWantedUnflagged(m, tab) == tab # NoTab

\* if (message.data && message.data.includeLogs && tab)
PageLogsWanted(m, tab) == m.hasData /\ m.includeLogs /\ tab # NoTab

\* if (tab) { ... if (message.data && message.data.includeContent)
PageContentWanted(m, tab) == tab # NoTab /\ m.hasData /\ m.includeContent

PageQuery(r) ==
    /\ At(r, "GET_CURRENT_PAGE", "start")
    /\ \/ Finish(r, Replied(Failure(QueryError)))
       \/ \E tab \in CurrentPageSelections :
            LET m    == handler[r].msg
                logs == IF PageLogsWanted(m, tab)
                        THEN GetConsoleLogsFromTab(logTabs, tab.id)
                        ELSE "null"
            IN  IF tab = NoTab
                THEN Finish(r, PageNoTab)
                ELSE IF PageContentWanted(m, tab)
                THEN /\ handler' = [handler EXCEPT
                            ![r].pc = "content", ![r].tab = tab.id, ![r].logs = logs]
                     /\ UNCHANGED <<responses, broadcasts, escaped>>
                ELSE Finish(r, Replied(PageData(tab.id, logs, "null")))
    /\ UNCHANGED <<storage, gptKey, init, apiCalls, isRunning, results, logTabs>>

\* chrome.scripting.executeScript settles: with the extracted content, or
\* without a result or with an exception, which leave pageContent null.
PageContent(r) ==
    /\ At(r, "GET_CURRENT_PAGE", "content")
    /\ \E content \in {"content", "null"} :
         Finish(r, Replied(PageData(handler[r].tab, handler[r].logs, content)))
    /\ UNCHANGED <<storage, gptKey, init, apiCalls, isRunning, results, logTabs>>

(***************************************************************************)
(* The audit runner's results (LighthouseService): times in milliseconds,  *)
(* the layout shift in thousandths, scores in points.                      *)
(***************************************************************************)
\* Math.random() yields rnd / RandomUnit, which is less than 1.
RandomSamples == {0, RandomUnit - 1}

\* Math.floor(Math.random() * n)
FloorRandom(rnd, n) == (rnd * n) \div RandomUnit

Min(a, b) == IF a < b THEN a ELSE b
Max(a, b) == IF a > b THEN a ELSE b

\* Date.now()
Now == "Date.now()"

\* calculatePerformanceScore with the penalty of first contentful paint
\* left uncapped.
CalculatePerformanceScoreUncapped(metrics) ==
    LET fcp  == IF metrics.firstContentfulPaint > 1800
                THEN (metrics.firstContentfulPaint - 1800) * 2
                ELSE 0
        lcp  == IF metrics.largestContentfulPaint > 2500
                THEN Min(25 * 200, (metrics.largestContentfulPaint - 2500) * 2)
                ELSE 0
        load == IF metrics.loadTime > 3000
                THEN Min(25 * 200, metrics.loadTime - 3000)
                ELSE 0
        cls  == IF metrics.cumulativeLayoutShift > 100
                THEN Min(20 * 200, metrics.cumulativeLayoutShift * 20)
                ELSE 0
        score == 100 * 200 - fcp - lcp - load - cls
    IN  Max(0, (score + 100) \div 200)

\* calculatePerformanceScore, in two-hundredths of a point until it is
\* rounded: Math.max(0, Math.round(score)).
CalculatePerformanceScore(metrics) ==
    LET fcp  == IF metrics.firstContentfulPaint > 1800
                THEN Min(30 * 200, (metrics.firstContentfulPaint - 1800) * 2)
                ELSE 0
        lcp  == IF metrics.largestContentfulPaint > 2500
                THEN Min(25 * 200, (metrics.largestContentfulPaint - 2500) * 2)
                ELSE 0
        load == IF metrics.loadTime > 3000
                THEN Min(25 * 200, metrics.loadTime - 3000)
                ELSE 0
        cls  == IF metrics.cumulativeLayoutShift > 100
                THEN Min(20 * 200, metrics.cumulativeLayoutShift * 20)
                ELSE 0
        score == 100 * 200 - fcp - lcp - load - cls
    IN  Max(0, (score + 100) \div 200)

\* calculateScores: draws holds the values of its three Math.random() calls.
CalculateScores(metrics, draws) ==
    LET performance == CalculatePerformanceScore(metrics)
    IN  [performance   |-> performance,
         accessibility |-> FloorRandom(draws[1], 20) + 80,
         bestPractices |-> FloorRandom(draws[2], 20) + 75,
         seo           |-> FloorRandom(draws[3], 20) + 85,
         overall       |-> (performance + 80 + 75 + 85 + 2) \div 4]

\* What collectPerformanceMetrics returns for the values read in the page.
CollectPerformanceMetrics(webVitals, draws) ==
    LET scores == CalculateScores(webVitals, draws)
    IN  [url |-> webVitals.url, title |-> webVitals.title,
         timestamp |-> webVitals.timestamp,
         metrics |-> webVitals,
         scores |-> scores,
         categories |-> [performance   |-> scores.performance,
                         accessibility |-> scores.accessibility,
                         bestPractices |-> scores.bestPractices,
                         seo           |-> scores.seo]]

\* getMockResults: draws holds the values of its fifteen Math.random()
\* calls, in the order of the object literal.
GetMockResults(url, draws) ==
    [url |-> url, title |-> "Mock Lighthouse Report", timestamp |-> Now,
     metrics |-> [loadTime               |-> FloorRandom(draws[1], 2000) + 1000,
                  domContentLoaded       |-> FloorRandom(draws[2], 1500) + 800,
                  firstPaint             |-> FloorRandom(draws[3], 1000) + 500,
                  firstContentfulPaint   |-> FloorRandom(draws[4], 1200) + 600,
                  largestContentfulPaint |-> FloorRandom(draws[5], 2000) + 1000,
                  cumulativeLayoutShift  |-> (draws[6] * 300) \div RandomUnit],
     scores |-> [performance   |-> FloorRandom(draws[7], 40) + 60,
                 accessibility |-> FloorRandom(draws[8], 20) + 80,
                 bestPractices |-> FloorRandom(draws[9], 20) + 75,
                 seo           |-> FloorRandom(draws[10], 20) + 85,
                 overall       |-> FloorRandom(draws[11], 30) + 70],
     categories |-> [performance   |-> FloorRandom(draws[12], 40) + 60,
                     accessibility |-> FloorRandom(draws[13], 20) + 80,
                     bestPractices |-> FloorRandom(draws[14], 20) + 75,
                     seo           |-> FloorRandom(draws[15], 20) + 85]]

\* The values a page reports to Runtime.evaluate.
WebVitals(loadTime, firstPaint, largestPaint, shift) ==
    [loadTime |-> loadTime, domContentLoaded |-> loadTime,
     firstPaint |-> firstPaint, firstContentfulPaint |-> firstPaint,
     largestContentfulPaint |-> largestPaint, cumulativeLayoutShift |-> shift,
     url |-> "https://example.com/", title |-> "Example", timestamp |-> Now]

(***************************************************************************)
(* RUN_LIGHTHOUSE_AUDIT, LIGHTHOUSE_REQUEST                                *)
(***************************************************************************)
AuditTypes == {"RUN_LIGHTHOUSE_AUDIT", "LIGHTHOUSE_REQUEST"}

\* What the browser reports when a step of the live measurement fails.
TabIdTypeError == "Cannot read properties of undefined (reading 'id')"
AttachError == "Cannot attach to this target"
CommandError == "Debugger command failed"
DetachError == "Debugger is not attached to the tab"

\* What the Coordinator's audits draw: Math.random() yields the same value
\* throughout a call, and the page is a fast or a slow one.
CoordDraws == {[i \in 1..15 |-> rnd] : rnd \in RandomSamples}
\* One page that is fast and one that is slow.
FastPage == WebVitals(1200, 900, 1100, 50)
SlowPage == WebVitals(9000, 5000, 7000, 400)

\* The live measurements of the Coordinator's audits: the values of a page
\* with the values of the Math.random() calls of calculateScores.
CoordMeasurements ==
    {[webVitals |-> FastPage, draws |-> [i \in 1..15 |-> 0]],
     [webVitals |-> SlowPage, draws |-> [i \in 1..15 |-> RandomUnit - 1]]}

\* openLighthouseResults, which the handler calls without await and without
\* a catch: chrome.windows.create gives the window, or it fails and the
\* catch block of openLighthouseResults logs and rethrows, which rejects the
\* promise nobody holds.
WindowOutcomes == {"opened", "rejected"}

\* Mutant: runAudit returns the result without keeping it.
StoreResultsNever(slot, metrics) == slot

\* runAudit: this.results = results
StoreResults(slot, metrics) == metrics

\* getLastResults
GetLastResults(slot) == slot

\* Mutant: runAudit has no guard.
AuditGuardOff(running) == FALSE

\* runAudit: if (this.isRunning) throw ...
AuditGuard(running) == running

\* The catch block of runLighthouseAudit: await detach, then await
\* tabs.remove, both in one try block.  chrome.debugger.detach rejects when
\* no debugger is attached to the tab, and tabs.remove is then skipped.
Cleanup(h) ==
    IF h.attached
    THEN [h EXCEPT !.tempTab = "closed", !.attached = FALSE]
    ELSE h

\* Mutant: the catch block of runAudit throws the error on and leaves the
\* flag set.
RunAuditFailsFlagKept(r, h, error) ==
    /\ UNCHANGED isRunning
    /\ GotoWith(r, [h EXCEPT !.auditError = error], "fallback")

\* runLighthouseAudit rejects with the error; the catch block of runAudit
\* clears the flag and throws it on to the handler's catch (auditError).
RunAuditFails(r, h, error) ==
    /\ isRunning' = FALSE
    /\ GotoWith(r, [h EXCEPT !.auditError = error], "fallback")

\* Mutant: the handler has no catch (auditError) of its own.
AuditFallbackNone(error, url, draws) == Replied(Failure(error))

\* catch (auditError): the mock result; then, as on the live path, the
\* result window is opened (not awaited) and the response is sent.
AuditFallback(error, url, draws) == Replied(OkResults(GetMockResults(url, draws)))

\* message.data.url || `tab-${message.data.tabId}`
MockUrl(m) == IF m.hasUrl THEN "https://example.com/" ELSE "tab-undefined"

\* The handler up to its first await: message.data.url is read, runAudit is
\* called and runs up to its own first await.
AuditStart(r) ==
    /\ handler[r].msg.type \in AuditTypes
    /\ handler[r].pc = "start"
    /\ IF ~handler[r].msg.hasData
       THEN Finish(r, Replied(Failure(UrlTypeError))) /\ UNCHANGED isRunning
       ELSE IF AuditGuard(isRunning)
       THEN /\ GotoWith(r, [handler[r] EXCEPT !.auditError = AlreadyRunningError],
                        "fallback")
            /\ UNCHANGED isRunning
       ELSE /\ isRunning' = TRUE
            /\ Goto(r, IF handler[r].msg.hasUrl THEN "create" ELSE "query")
    /\ UNCHANGED <<storage, gptKey, init, apiCalls, results, logTabs>>

\* runAudit without a url: chrome.tabs.query({active, currentWindow})
\* settles, and tab.url is read.
AuditQuery(r) ==
    /\ handler[r].msg.type \in AuditTypes
    /\ handler[r].pc = "query"
    /\ \/ Goto(r, "create") /\ UNCHANGED isRunning
       \/ RunAuditFails(r, handler[r], UrlTypeError)
    /\ UNCHANGED <<storage, gptKey, init, apiCalls, results, logTabs>>

\* runLighthouseAudit: the callback of chrome.tabs.create.  Without a tab,
\* tab.id throws in the try block and again in the cleanup.
AuditCreate(r) ==
    /\ handler[r].msg.type \in AuditTypes
    /\ handler[r].pc = "create"
    /\ \/ GotoWith(r, [handler[r] EXCEPT !.tempTab = "open"], "attach")
            /\ UNCHANGED isRunning
       \/ RunAuditFails(r, handler[r], TabIdTypeError)
    /\ UNCHANGED <<storage, gptKey, init, apiCalls, results, logTabs>>

\* chrome.debugger.attach settles.
AuditAttach(r) ==
    /\ handler[r].msg.type \in AuditTypes
    /\ handler[r].pc = "attach"
    /\ \/ GotoWith(r, [handler[r] EXCEPT !.attached = TRUE], "measure")
            /\ UNCHANGED isRunning
       \/ RunAuditFails(r, Cleanup(handler[r]), AttachError)
    /\ UNCHANGED <<storage, gptKey, init, apiCalls, results, logTabs>>

\* Runtime.enable, Page.enable, Network.enable, waitForPageLoad and
\* collectPerformanceMetrics settle: all of them, or one of the commands
\* fails.
AuditMeasure(r) ==
    /\ handler[r].msg.type \in AuditTypes
    /\ handler[r].pc = "measure"
    /\ \/ Goto(r, "teardown") /\ UNCHANGED isRunning
       \/ RunAuditFails(r, Cleanup(handler[r]), CommandError)
    /\ UNCHANGED <<storage, gptKey, init, apiCalls, results, logTabs>>

\* The end of the try block of runLighthouseAudit: detach, tabs.remove,
\* resolve(metrics); runAudit clears the flag and returns the result; the
\* handler opens the result window (not awaited) and responds.  When the
\* detach is rejected, the catch block's detach is rejected as well and the
\* promise is rejected with the first error.
AuditTeardown(r) ==
    /\ handler[r].msg.type \in AuditTypes
    /\ handler[r].pc = "teardown"
    /\ \/ /\ isRunning' = FALSE
          /\ \E measured \in CoordMeasurements, opened \in WindowOutcomes :
               LET metrics == CollectPerformanceMetrics(measured.webVitals, measured.draws)
               IN  /\ results' = StoreResults(results, metrics)
                   /\ FinishWith(r, [handler[r] EXCEPT !.tempTab = "closed",
                                                        !.attached = FALSE,
                                                        !.resultsWindow = opened],
                                 Replied(OkResults(metrics)))
       \/ RunAuditFails(r, handler[r], DetachError) /\ UNCHANGED results
    /\ UNCHANGED <<storage, gptKey, init, apiCalls, logTabs>>

\* The handler's catch (auditError) runs; the handler opens the result
\* window (not awaited) and responds.
AuditMock(r) ==
    /\ handler[r].msg.type \in AuditTypes
    /\ handler[r].pc = "fallback"
    /\ \E draws \in CoordDraws, opened \in WindowOutcomes :
         FinishWith(r, [handler[r] EXCEPT !.resultsWindow = opened],
                    AuditFallback(handler[r].auditError, MockUrl(handler[r].msg), draws))
    /\ UNCHANGED <<storage, gptKey, init, apiCalls, isRunning, results, logTabs>>

(***************************************************************************)
(* Any other type                                                          *)
(***************************************************************************)
\* Mutant: the default case drops the captured console logs.
UnknownTypeDropsLogs(r) ==
    /\ handler[r].pc = "start"
    /\ handler[r].msg.type \notin Types \ {"UNKNOWN_TYPE"}
    /\ Finish(r, Replied(Failure(UnknownTypeError)))
    /\ logTabs' = {}
    /\ UNCHANGED <<storage, gptKey, init, apiCalls, isRunning, results>>

\* The default case of the switch.
UnknownType(r) ==
    /\ handler[r].pc = "start"
    /\ handler[r].msg.type \notin Types \ {"UNKNOWN_TYPE"}
    /\ Finish(r, Replied(Failure(UnknownTypeError)))
    /\ UNCHANGED <<storage, gptKey, init, apiCalls, isRunning, results, logTabs>>

(***************************************************************************)
(* The listeners of chrome.runtime.onMessage.                              *)
(***************************************************************************)
\* message.target is undefined.
NoTarget == "undefined"
Targets == {NoTarget, "background", "gpt-popup", "popup"}

\* The listening contexts: the Coordinator, which the chat window addresses
\* as "background", and the two chat windows, which the Coordinator
\* addresses as "gpt-popup".
Coordinator == "BackgroundService"
ChatApp == "GPTChatApp"
ChatPopup == "GPTPopup"
Listeners == {Coordinator, ChatApp, ChatPopup}

NameOf(listener) == IF listener = Coordinator THEN "background" ELSE "gpt-popup"

BroadcastTypes == {"GPT_RESPONSE", "LIGHTHOUSE_RESULT"}

Mail(type, target, sender) == [type |-> type, target |-> target, sender |-> sender]
NoMail == Mail("none", NoTarget, "none")

\* What the Coordinator sends are its broadcasts; any other context of the
\* extension can send any message.
Mails ==
    {Mail(t, "gpt-popup", Coordinator) : t \in BroadcastTypes}
    \cup {Mail(t, g, c) : t \in Types \cup BroadcastTypes, g \in Targets,
                          c \in {ChatApp, ChatPopup}}

\* if (message.target && message.target !== "gpt-popup") return;
TargetsChatWindow(message) ==
    ~(message.target # NoTarget /\ message.target # "gpt-popup")

\* The listener of GPTChatApp.tsx: the target check, then the switch.
ChatAppActsOn(message) ==
    TargetsChatWindow(message) /\ message.type \in BroadcastTypes

\* The listener of popup.js (GPTPopup): the target check, then the switch.
ChatPopupActsOn(message) ==
    TargetsChatWindow(message) /\ message.type \in BroadcastTypes

\* The listener of BackgroundService: handleMessage is called with every
\* message, and every case of its switch, the default too, responds.
CoordinatorActsOn(message) == TRUE

ActsOn(listener, message) ==
    CASE listener = Coordinator -> CoordinatorActsOn(message)
      [] listener = ChatApp -> ChatAppActsOn(message)
      [] listener = ChatPopup -> ChatPopupActsOn(message)

\* A context calls chrome.runtime.sendMessage.
SendMail(m) ==
    /\ inbox' = m
    /\ heard' = [l \in Listeners |-> "pending"]

\* chrome.runtime hands the message to a listener of another context.
Deliver(listener) ==
    /\ inbox # NoMail
    /\ inbox.sender # listener
    /\ heard[listener] = "pending"
    /\ heard' = [heard EXCEPT ![listener] =
                    IF ActsOn(listener, inbox) THEN "acted" ELSE "ignored"]
    /\ UNCHANGED inbox

(***************************************************************************)
(* Tab resolution on its own.                                              *)
(***************************************************************************)
ResolveCurrentPage ==
    /\ selected' = SelectTabCurrentPage(tabSet)
    /\ tabReply' = AfterResolution(SelectTabCurrentPage(tabSet), PageNoTab)
    /\ resolvedBy' = "GET_CURRENT_PAGE"
    /\ UNCHANGED tabSet

ResolveSetupLogging ==
    /\ selected' = SelectTabSetupLogging(tabSet)
    /\ tabReply' = AfterResolution(SelectTabSetupLogging(tabSet), SetupNoTab)
    /\ resolvedBy' = "SETUP_CONSOLE_LOGGING"
    /\ UNCHANGED tabSet

ResolveConsoleLogs ==
    /\ selected' = SelectTabConsoleLogs(tabSet)
    /\ tabReply' = AfterResolution(SelectTabConsoleLogs(tabSet), LogsNoTab)
    /\ resolvedBy' = "API_GET_CONSOLE_LOGS"
    /\ UNCHANGED tabSet

(***************************************************************************)
(* The Coordinator's specification.                                        *)
(***************************************************************************)
Step(r) ==
    \/ GptGetKey(r) \/ GptSetKey(r) \/ GptSend(r) \/ GptNet(r)
    \/ GetApiKey(r)
    \/ SetApiKeyStore(r) \/ SetApiKeyMirror(r)
    \/ SetupQuery(r) \/ SetupAttach(r) \/ SetupEnable(r)
    \/ LogsQuery(r) \/ LogsAnalysis(r)
    \/ PageQuery(r) \/ PageContent(r)
    \/ AuditStart(r) \/ AuditQuery(r) \/ AuditCreate(r) \/ AuditAttach(r)
    \/ AuditMeasure(r) \/ AuditTeardown(r) \/ AuditMock(r)
    \/ UnknownType(r)

TabsIdle ==
    /\ tabSet = <<>>
    /\ selected = NoTab
    /\ resolvedBy = "none"
    /\ tabReply = Continues
ListenersIdle == inbox = NoMail /\ heard = [l \in Listeners |-> "pending"]

\* No front surface has done anything.
SurfacesIdle ==
    /\ writers = {}
    /\ callers = {}
    /\ popupSaved = NoKey
    /\ chatWaits = 0

\* No result is being computed.
NoScoreInput == [path |-> "none", webVitals |-> <<>>, draws |-> <<>>]
ScoresIdle == scoreInput = NoScoreInput /\ auditResult = <<>>

\* this.tabConsoleLogs[tabId] is undefined.
NoLogList == [set |-> FALSE, entries |-> <<>>]
\* No waitForPageLoad was called.
NoPageLoad == [pc |-> "idle", now |-> 0, startedAt |-> -1, listening |-> FALSE,
               fallback |-> "none", settle |-> "none", loadedAt |-> -1,
               resolvedAt |-> -1]
\* getDebugInfo was not called.
NoDebugInfo == [pc |-> "idle", run |-> 0, channel |-> 0,
                timers |-> [k \in 1..MaxDebugRuns |-> "none"],
                pageResponse |-> [kind |-> "null", error |-> "", response |-> <<>>]]

\* No debugger event was seen, no page load is awaited and the chat window
\* has not asked for debug information.
EventsIdle ==
    /\ tabConsoleLogs = NoLogList
    /\ pageLoad = NoPageLoad
    /\ debugInfo = NoDebugInfo

\* The conversation labels of the requests: the chat window's, and another.
ConversationIds == {"gpt-popup", "default"}

\* No chat request was sent: no conversation has turns, and the chat
\* window's message list is empty.
ChatIdle ==
    /\ history = [c \in ConversationIds |-> <<>>]
    /\ turnCount = [c \in ConversationIds |-> 0]
    /\ messages = <<>>
    /\ isLoading = FALSE
    /\ awaiting = {}
    /\ asked = 0

Init ==
    CoordInit /\ TabsIdle /\ ListenersIdle /\ SurfacesIdle /\ ScoresIdle /\ ChatIdle
    /\ EventsIdle

Next ==
    \/ ~Returned /\ InitGet /\ UNCHANGED <<tabVars, listenerVars, surfaceVars, scoreVars, chatVars, eventVars>>
    \/ ~Returned /\ InitSet /\ UNCHANGED <<tabVars, listenerVars, surfaceVars, scoreVars, chatVars, eventVars>>
    \/ \E r \in Reqs, m \in Messages :
          ~Returned /\ Dispatch(r, m) /\ UNCHANGED <<tabVars, listenerVars, surfaceVars, scoreVars, chatVars, eventVars>>
    \/ \E r \in Reqs : ~Returned /\ Step(r) /\ UNCHANGED <<tabVars, listenerVars, surfaceVars, scoreVars, chatVars, eventVars>>
    \/ \E r \in Reqs : Close(r) /\ UNCHANGED <<tabVars, listenerVars, surfaceVars, scoreVars, chatVars, eventVars>>

Spec == Init /\ [][Next]_vars


\* The event loop runs every continuation that is ready: an invocation
\* whose awaited call has settled takes its next step, and a returned
\* invocation's channel is closed.
FairSpec ==
    /\ Spec
    /\ \A r \in Reqs :
           SF_vars(~Returned /\ Step(r) /\ UNCHANGED <<tabVars, listenerVars, surfaceVars, scoreVars, chatVars, eventVars>>)
    /\ \A r \in Reqs :
           WF_vars(Close(r) /\ UNCHANGED <<tabVars, listenerVars, surfaceVars, scoreVars, chatVars, eventVars>>)

(***************************************************************************)
(* The specification of tab resolution: any tab set, resolved by the copy  *)
(* of the resolution in each of the three handlers.                        *)
(***************************************************************************)
CoordQuiet == CoordInit /\ storage = NoKey

TabsInit ==
    /\ \E n \in 0..MaxTabs : \E props \in [1..n -> TabProps] : tabSet = WithIds(props)
    /\ selected = NoTab
    /\ resolvedBy = "none"
    /\ tabReply = Continues
    /\ CoordQuiet
    /\ ListenersIdle
    /\ SurfacesIdle
    /\ ScoresIdle
    /\ ChatIdle
    /\ EventsIdle

TabsNext ==
    \/ ResolveCurrentPage /\ UNCHANGED <<coordVars, listenerVars, surfaceVars, scoreVars, chatVars, eventVars>>
    \/ ResolveSetupLogging /\ UNCHANGED <<coordVars, listenerVars, surfaceVars, scoreVars, chatVars, eventVars>>
    \/ ResolveConsoleLogs /\ UNCHANGED <<coordVars, listenerVars, surfaceVars, scoreVars, chatVars, eventVars>>

SpecTabs == TabsInit /\ [][TabsNext]_vars

(***************************************************************************)
(* The specification of the listeners: any message, handed to the          *)
(* listeners of the contexts other than its sender.                        *)
(***************************************************************************)
ListenersInit ==
    CoordQuiet /\ TabsIdle /\ ListenersIdle /\ SurfacesIdle /\ ScoresIdle /\ ChatIdle
    /\ EventsIdle

ListenersNext ==
    \/ \E m \in Mails : SendMail(m) /\ UNCHANGED <<coordVars, tabVars, surfaceVars, scoreVars, chatVars, eventVars>>
    \/ \E l \in Listeners : Deliver(l) /\ UNCHANGED <<coordVars, tabVars, surfaceVars, scoreVars, chatVars, eventVars>>

SpecListeners == ListenersInit /\ [][ListenersNext]_vars


(***************************************************************************)
(* The front surfaces: the toolbar popup (PopupApp.tsx, and popup.js of    *)
(* the older build) and the chat window, with the Coordinator serving the  *)
(* messages they send.                                                     *)
(***************************************************************************)
ToolbarApp == "PopupApp"
ToolbarPopup == "PopupController"

\* A key without the prefix of an OpenAI key.
PlainKey == <<"plain-key">>
\* What the user can have typed into the key field.
KeyInputs == Keys \cup {PlainKey}

\* PopupApp.saveApiKey up to chrome.storage.local.set: a key that is empty
\* once trimmed is turned down, any other is stored as typed.
PopupAppSave(k) ==
    /\ popupSaved = NoKey
    /\ Truthy(Trim(k))
    /\ storage' = k
    /\ writers' = writers \cup {ToolbarApp}
    /\ popupSaved' = k
    /\ UNCHANGED <<gptKey, init, handler, responses, broadcasts, apiCalls,
                   escaped, isRunning, results, logTabs, callers, chatWaits>>

\* PopupApp.saveApiKey after the write: SET_API_KEY is sent to the
\* Coordinator.
PopupAppAnnounce(r) ==
    /\ popupSaved # NoKey
    /\ Dispatch(r, Msg("SET_API_KEY", TRUE, popupSaved, FALSE, FALSE, FALSE))
    /\ popupSaved' = NoKey
    /\ UNCHANGED <<writers, callers, chatWaits>>

\* PopupController.saveApiKey (popup.js): the trimmed key is stored when it
\* is not empty and starts with "sk-"; no message is sent.
PopupControllerSave(k) ==
    LET apiKey == Trim(k)
    IN  /\ Truthy(apiKey)
        /\ StartsWith(apiKey, <<"sk-">>)
        /\ storage' = apiKey
        /\ writers' = writers \cup {ToolbarPopup}
        /\ UNCHANGED <<gptKey, init, handler, responses, broadcasts, apiCalls,
                       escaped, isRunning, results, logTabs, callers, popupSaved, chatWaits>>

\* The chat window sends the user's message as GPT_REQUEST.
ChatSendRequest(r) ==
    /\ Dispatch(r, PlainMsg("GPT_REQUEST", TRUE))
    /\ UNCHANGED surfaceVars

\* GPTChatApp.handleDebugAnalysis: a GPTService of the chat window's own is
\* created and the key is asked of the Coordinator.
ChatDebugAsk(r) ==
    /\ chatWaits = 0
    /\ Dispatch(r, PlainMsg("GET_API_KEY", FALSE))
    /\ chatWaits' = r
    /\ UNCHANGED <<writers, callers, popupSaved>>

\* handleDebugAnalysis receives the response: with a key in it, the key is
\* set on the chat window's GPTService and its sendRequest is called.
ChatDebugReceive(r) ==
    /\ chatWaits = r
    /\ Done(r)
    /\ Close(r)
    /\ chatWaits' = 0
    /\ LET apiKey == responses[r][1]
       IN  callers' = IF apiKey.success /\ Truthy(apiKey.data.key)
                      THEN callers \cup {ChatApp}
                      ELSE callers
    /\ UNCHANGED <<writers, popupSaved>>

\* The step of the invocation wrote the stored credential (storeApiKey).
CoordinatorWrote(r) ==
    /\ At(r, "SET_API_KEY", "start")
    /\ handler'[r].pc = "setKey" \/ responses'[r] = <<Ok>>

\* The step of the invocation called gptService.sendRequest.
CoordinatorCalled(r) == At(r, "GPT_REQUEST", "send")

\* A step of the Coordinator, with what it wrote and called noted.
CoordinatorStep(r) ==
    /\ Step(r)
    /\ writers' = IF CoordinatorWrote(r) THEN writers \cup {Coordinator} ELSE writers
    /\ callers' = IF CoordinatorCalled(r) THEN callers \cup {Coordinator} ELSE callers
    /\ UNCHANGED <<popupSaved, chatWaits>>

\* The channel of a message whose response nobody awaits is closed.
CloseUnawaited(r) ==
    /\ chatWaits # r
    /\ Close(r)
    /\ UNCHANGED surfaceVars

SurfacesNext ==
    \/ ~Returned /\ InitGet /\ UNCHANGED <<tabVars, listenerVars, surfaceVars, scoreVars, chatVars, eventVars>>
    \/ ~Returned /\ InitSet /\ UNCHANGED <<tabVars, listenerVars, surfaceVars, scoreVars, chatVars, eventVars>>
    \/ \E k \in KeyInputs :
          ~Returned /\ PopupAppSave(k) /\ UNCHANGED <<tabVars, listenerVars, scoreVars, chatVars, eventVars>>
    \/ \E k \in KeyInputs :
          ~Returned /\ PopupControllerSave(k) /\ UNCHANGED <<tabVars, listenerVars, scoreVars, chatVars, eventVars>>
    \/ \E r \in Reqs :
          ~Returned /\ PopupAppAnnounce(r) /\ UNCHANGED <<tabVars, listenerVars, scoreVars, chatVars, eventVars>>
    \/ \E r \in Reqs :
          ~Returned /\ ChatSendRequest(r) /\ UNCHANGED <<tabVars, listenerVars, scoreVars, chatVars, eventVars>>
    \/ \E r \in Reqs :
          ~Returned /\ ChatDebugAsk(r) /\ UNCHANGED <<tabVars, listenerVars, scoreVars, chatVars, eventVars>>
    \/ \E r \in Reqs :
          ChatDebugReceive(r) /\ UNCHANGED <<tabVars, listenerVars, scoreVars, chatVars, eventVars>>
    \/ \E r \in Reqs :
          ~Returned /\ CoordinatorStep(r) /\ UNCHANGED <<tabVars, listenerVars, scoreVars, chatVars, eventVars>>
    \/ \E r \in Reqs :
          CloseUnawaited(r) /\ UNCHANGED <<tabVars, listenerVars, scoreVars, chatVars, eventVars>>

SpecSurfaces == Init /\ [][SurfacesNext]_vars

(***************************************************************************)
(* The scores of an audit result, computed for the values a page can       *)
(* report and for the values Math.random() can return.                     *)
(***************************************************************************)
\* Millisecond values of a page: loadTime is negative while loadEventEnd is
\* still 0; a paint entry that is missing reads 0.
LoadTimes == {-1, 1200, 3200, 9000}
PaintTimes == {0, 1850, 1900, 5000}
LargestPaintTimes == {0, 2600, 7000}
\* Cumulative layout shift, in thousandths.
LayoutShifts == {0, 150, 400}

LiveInputs ==
    {[path |-> "live", webVitals |-> WebVitals(l, f, p, c), draws |-> d] :
        l \in LoadTimes, f \in PaintTimes, p \in LargestPaintTimes,
        c \in LayoutShifts, d \in [1..3 -> RandomSamples]}

MockInputs ==
    {[path |-> "mock", webVitals |-> <<>>, draws |-> d] :
        d \in [1..15 -> RandomSamples]}

ScoresInit ==
    /\ CoordInit /\ TabsIdle /\ ListenersIdle /\ SurfacesIdle /\ ChatIdle /\ EventsIdle
    /\ scoreInput \in LiveInputs \cup MockInputs
    /\ auditResult = <<>>

\* runLighthouseAudit: collectPerformanceMetrics returns the result of a
\* live measurement.
ScoreLive ==
    /\ scoreInput.path = "live"
    /\ auditResult = <<>>
    /\ auditResult' = CollectPerformanceMetrics(scoreInput.webVitals, scoreInput.draws)
    /\ UNCHANGED scoreInput

\* getMockResults returns the simulated result.
ScoreMock ==
    /\ scoreInput.path = "mock"
    /\ auditResult = <<>>
    /\ auditResult' = GetMockResults("https://example.com", scoreInput.draws)
    /\ UNCHANGED scoreInput

ScoresNext ==
    \/ ScoreLive /\ UNCHANGED <<coordVars, tabVars, listenerVars, surfaceVars, chatVars, eventVars>>
    \/ ScoreMock /\ UNCHANGED <<coordVars, tabVars, listenerVars, surfaceVars, chatVars, eventVars>>

SpecScores == ScoresInit /\ [][ScoresNext]_vars

(***************************************************************************)
(* The conversation: the chat window sends the user's messages as          *)
(* GPT_REQUEST and shows what comes back, and the API client keeps the     *)
(* turns of each conversation.                                             *)
(***************************************************************************)
\* A turn of a conversation: n is its position among the turns recorded
\* for the conversation since it began.
Turn(role, n) == [role |-> role, n |-> n]

\* Mutant: over the cap, the turns recorded first are kept.
RecordTurnsKeepOldest(turns, n) ==
    LET all == turns \o <<Turn("user", n + 1), Turn("assistant", n + 2)>>
    IN  IF Len(all) > HistoryCap THEN SubSeq(all, 1, HistoryCap) ELSE all

\* sendRequest on success: the user turn and the assistant turn are added
\* to the conversation's history, and the oldest turns are dropped when the
\* history is over the cap.  n is the number of turns recorded before.
RecordTurns(turns, n) ==
    LET all == turns \o <<Turn("user", n + 1), Turn("assistant", n + 2)>>
    IN  IF Len(all) > HistoryCap
        THEN SubSeq(all, Len(all) - HistoryCap + 1, Len(all))
        ELSE all

\* GPTChatApp.sendMessage, up to the await of the response: the user's
\* message is appended, isLoading is set and GPT_REQUEST is sent with
\* conversationId "gpt-popup".  Nothing is sent while isLoading.
ChatWindowSend(r) ==
    /\ ~isLoading
    /\ asked < MaxChatRequests
    /\ Dispatch(r, PlainMsg("GPT_REQUEST", TRUE))
    /\ messages' = Append(messages, "user")
    /\ isLoading' = TRUE
    /\ awaiting' = awaiting \cup {r}
    /\ asked' = asked + 1
    /\ UNCHANGED <<history, turnCount>>

\* sendMessage as the file defines it the second time, with the message
\* "debug": the user's message is appended, isLoading is set, and
\* handleDebugCommand sends GET_CURRENT_PAGE without data.
ChatDebugCommand(r) ==
    /\ ~isLoading
    /\ asked < MaxChatRequests
    /\ Dispatch(r, PlainMsg("GET_CURRENT_PAGE", FALSE))
    /\ messages' = Append(messages, "user")
    /\ isLoading' = TRUE
    /\ awaiting' = awaiting \cup {r}
    /\ asked' = asked + 1
    /\ UNCHANGED <<history, turnCount>>

\* Another context sends a GPT_REQUEST.
OtherSend(r) ==
    /\ asked < MaxChatRequests
    /\ Dispatch(r, PlainMsg("GPT_REQUEST", TRUE))
    /\ asked' = asked + 1
    /\ UNCHANGED <<history, turnCount, messages, isLoading, awaiting>>

\* The network call of the invocation has settled with a completion in this
\* step: sendRequest returns normally.
SendRequestReturns(r) ==
    /\ At(r, "GPT_REQUEST", "net")
    /\ \E i \in 1..Len(broadcasts'[r]) : broadcasts'[r][i].data.kind = "completion"

\* The conversationId of the request of the channel.
RequestConversations(r) == IF r \in awaiting THEN {"gpt-popup"} ELSE ConversationIds

\* A step of a GPT_REQUEST or GET_CURRENT_PAGE invocation; when the
\* sendRequest of a GPT_REQUEST returns normally, the turns are recorded in
\* the request's conversation.
ChatStep(r) ==
    /\ GptGetKey(r) \/ GptSetKey(r) \/ GptSend(r) \/ GptNet(r) \/ PageQuery(r)
    /\ IF SendRequestReturns(r)
       THEN \E c \in RequestConversations(r) :
               /\ history' = [history EXCEPT ![c] = RecordTurns(@, turnCount[c])]
               /\ turnCount' = [turnCount EXCEPT ![c] = @ + 2]
       ELSE UNCHANGED <<history, turnCount>>
    /\ UNCHANGED <<messages, isLoading, awaiting, asked>>

\* handleGPTResponse(message.data) of the chat window's listener: the entry
\* appended for a GPT_RESPONSE broadcast.
ReplyEntry(b) == IF b.error # "" THEN "error" ELSE "assistant"

\* The entries the chat window's listener appends for the broadcasts that
\* reached it.
RECURSIVE HeardEntries(_)
HeardEntries(sent) ==
    IF sent = <<>> THEN <<>>
    ELSE (IF sent[1].outcome = "delivered" /\ sent[1].type = "GPT_RESPONSE"
          THEN <<ReplyEntry(sent[1])>> ELSE <<>>)
         \o HeardEntries(Tail(sent))

\* GPTChatApp.sendMessage after the await: a response with success false
\* is thrown and the catch block appends an error entry.
AnsweredEntries(resps) ==
    IF resps # <<>> /\ ~resps[1].success THEN <<"error">> ELSE <<>>

\* handleDebugCommand after the await: the response is shown in an
\* assistant entry, and sendMessage returns.
DebugEntries(resps) == <<"assistant">>

\* The broadcast of the invocation and its response reach the chat window,
\* which awaits the response if the request was its own.  isLoading is
\* cleared by handleGPTResponse and by the catch block of sendMessage.
ChatDeliver(r) ==
    /\ Close(r)
    /\ LET heard_ == HeardEntries(broadcasts[r])
           answered == IF r \in awaiting /\ handler[r].msg.type = "GPT_REQUEST"
                       THEN AnsweredEntries(responses[r]) ELSE <<>>
           shown == IF r \in awaiting /\ handler[r].msg.type = "GET_CURRENT_PAGE"
                    THEN DebugEntries(responses[r]) ELSE <<>>
       IN  /\ messages' = messages \o heard_ \o answered \o shown
           /\ isLoading' = IF heard_ \o answered # <<>> THEN FALSE ELSE isLoading
    /\ awaiting' = awaiting \ {r}
    /\ UNCHANGED <<history, turnCount, asked>>

ChatNext ==
    \/ ~Returned /\ InitGet /\ UNCHANGED <<tabVars, listenerVars, surfaceVars, scoreVars, chatVars, eventVars>>
    \/ ~Returned /\ InitSet /\ UNCHANGED <<tabVars, listenerVars, surfaceVars, scoreVars, chatVars, eventVars>>
    \/ \E r \in Reqs :
          ~Returned /\ ChatWindowSend(r) /\ UNCHANGED <<tabVars, listenerVars, surfaceVars, scoreVars, eventVars>>
    \/ \E r \in Reqs :
          ~Returned /\ ChatDebugCommand(r) /\ UNCHANGED <<tabVars, listenerVars, surfaceVars, scoreVars, eventVars>>
    \/ \E r \in Reqs :
          ~Returned /\ OtherSend(r) /\ UNCHANGED <<tabVars, listenerVars, surfaceVars, scoreVars, eventVars>>
    \/ \E r \in Reqs :
          ~Returned /\ ChatStep(r) /\ UNCHANGED <<tabVars, listenerVars, surfaceVars, scoreVars, eventVars>>
    \/ \E r \in Reqs :
          ChatDeliver(r) /\ UNCHANGED <<tabVars, listenerVars, surfaceVars, scoreVars, eventVars>>

SpecChat == Init /\ [][ChatNext]_vars

(***************************************************************************)
(* The captured console logs of a tab: the onEvent listener that           *)
(* setupConsoleLogging registers for the tab, and the debugger's events.   *)
(***************************************************************************)
\* The length above which the list is cut after a console call.
LogCap == 50

\* The tab of the listener, and another tab with a debugger attached.
CapturedTab == "captured tab"
EventSources == {CapturedTab, "another tab"}

\* this.tabConsoleLogs[tabId] = this.tabConsoleLogs[tabId] || [], when
\* Runtime.enable has succeeded.
CaptureStart ==
    /\ ~tabConsoleLogs.set
    /\ tabConsoleLogs' = [set |-> TRUE, entries |-> <<>>]
    /\ UNCHANGED <<pageLoad, debugInfo>>

\* list.slice(-n)
SliceLast(list, n) ==
    IF Len(list) > n THEN SubSeq(list, Len(list) - n + 1, Len(list)) ELSE list

\* The number of exception entries of the list.
RECURSIVE ExceptionEntries(_)
ExceptionEntries(list) ==
    IF list = <<>> THEN 0
    ELSE (IF Head(list) = "exception" THEN 1 ELSE 0) + ExceptionEntries(Tail(list))

\* onEvent with Runtime.consoleAPICalled: the entry is pushed, and the list
\* is cut to its last 50 entries when it is longer.
ConsoleApiCalled(source) ==
    /\ tabConsoleLogs.set
    /\ source = CapturedTab
    /\ LET pushed == Append(tabConsoleLogs.entries, "console")
       IN  tabConsoleLogs' = [tabConsoleLogs EXCEPT !.entries =
                                 IF Len(pushed) > LogCap THEN SliceLast(pushed, LogCap)
                                 ELSE pushed]
    /\ UNCHANGED <<pageLoad, debugInfo>>

\* onEvent with Runtime.exceptionThrown: the entry is pushed.
ExceptionThrown(source) ==
    /\ tabConsoleLogs.set
    /\ source = CapturedTab
    /\ ExceptionEntries(tabConsoleLogs.entries) < MaxExceptions
    /\ tabConsoleLogs' = [tabConsoleLogs EXCEPT !.entries = Append(@, "exception")]
    /\ UNCHANGED <<pageLoad, debugInfo>>

LogsNext ==
    \/ CaptureStart
          /\ UNCHANGED <<coordVars, tabVars, listenerVars, surfaceVars, scoreVars, chatVars>>
    \/ \E source \in EventSources :
          ConsoleApiCalled(source)
          /\ UNCHANGED <<coordVars, tabVars, listenerVars, surfaceVars, scoreVars, chatVars>>
    \/ \E source \in EventSources :
          ExceptionThrown(source)
          /\ UNCHANGED <<coordVars, tabVars, listenerVars, surfaceVars, scoreVars, chatVars>>

SpecLogs == ListenersInit /\ [][LogsNext]_vars

(***************************************************************************)
(* waitForPageLoad: the promise, its debugger listener and its two         *)
(* timers, with the time in milliseconds.                                  *)
(***************************************************************************)
\* setTimeout(..., 10000): the fallback.
FallbackTimeout == 10000
\* setTimeout(resolve, 2000), after the load event.
SettleDelay == 2000

\* The debugger events of the tab of the audit and of other tabs.
PageEvents == {[own |-> o, method |-> m] :
                  o \in BOOLEAN, m \in {"Page.loadEventFired", "Page.frameNavigated"}}

\* resolve(): the promise is resolved by the first call.
ResolveWait(w) ==
    IF w.pc = "waiting" THEN [w EXCEPT !.pc = "resolved", !.resolvedAt = w.now] ELSE w

\* Time passes.
Tick ==
    /\ pageLoad.now < MaxClock
    /\ pageLoad' = [pageLoad EXCEPT !.now = @ + ClockStep]
    /\ UNCHANGED <<tabConsoleLogs, debugInfo>>

\* waitForPageLoad is called: the listener is added and the fallback timer
\* is set.
WaitStart ==
    /\ pageLoad.pc = "idle"
    /\ pageLoad.now + FallbackTimeout <= MaxClock
    /\ pageLoad' = [pageLoad EXCEPT !.pc = "waiting", !.startedAt = pageLoad.now,
                                    !.listening = TRUE, !.fallback = "armed"]
    /\ UNCHANGED <<tabConsoleLogs, debugInfo>>

\* The listener is called with an event: on Page.loadEventFired of the
\* tab, it removes itself and sets the timer that resolves.
PageEvent(e) ==
    /\ pageLoad.listening
    /\ IF e.own /\ e.method = "Page.loadEventFired"
       THEN pageLoad' = [pageLoad EXCEPT !.listening = FALSE, !.settle = "armed",
                                        !.loadedAt = pageLoad.now]
       ELSE UNCHANGED pageLoad
    /\ UNCHANGED <<tabConsoleLogs, debugInfo>>

\* The timer set after the load event fires: resolve.
SettleFires ==
    /\ pageLoad.settle = "armed"
    /\ pageLoad.now >= pageLoad.loadedAt + SettleDelay
    /\ pageLoad' = ResolveWait([pageLoad EXCEPT !.settle = "fired"])
    /\ UNCHANGED <<tabConsoleLogs, debugInfo>>

\* Mutant: the fallback removes the listener and does not resolve.
FallbackFiresUnresolved ==
    /\ pageLoad.fallback = "armed"
    /\ pageLoad.now >= pageLoad.startedAt + FallbackTimeout
    /\ pageLoad' = [pageLoad EXCEPT !.fallback = "fired", !.listening = FALSE]
    /\ UNCHANGED <<tabConsoleLogs, debugInfo>>

\* The fallback timer fires: the listener is removed, and resolve.
FallbackFires ==
    /\ pageLoad.fallback = "armed"
    /\ pageLoad.now >= pageLoad.startedAt + FallbackTimeout
    /\ pageLoad' = ResolveWait([pageLoad EXCEPT !.fallback = "fired", !.listening = FALSE])
    /\ UNCHANGED <<tabConsoleLogs, debugInfo>>

PageLoadNext ==
    \/ Tick /\ UNCHANGED <<coordVars, tabVars, listenerVars, surfaceVars, scoreVars, chatVars>>
    \/ WaitStart
          /\ UNCHANGED <<coordVars, tabVars, listenerVars, surfaceVars, scoreVars, chatVars>>
    \/ \E e \in PageEvents :
          PageEvent(e)
          /\ UNCHANGED <<coordVars, tabVars, listenerVars, surfaceVars, scoreVars, chatVars>>
    \/ SettleFires
          /\ UNCHANGED <<coordVars, tabVars, listenerVars, surfaceVars, scoreVars, chatVars>>
    \/ FallbackFires
          /\ UNCHANGED <<coordVars, tabVars, listenerVars, surfaceVars, scoreVars, chatVars>>

SpecPageLoad == ListenersInit /\ [][PageLoadNext]_vars

\* Time passes and a timer that is due fires.
FairPageLoad ==
    /\ SpecPageLoad
    /\ WF_vars(Tick /\ UNCHANGED <<coordVars, tabVars, listenerVars, surfaceVars,
                                     scoreVars, chatVars>>)
    /\ WF_vars(SettleFires /\ UNCHANGED <<coordVars, tabVars, listenerVars, surfaceVars,
                                            scoreVars, chatVars>>)
    /\ WF_vars(FallbackFires /\ UNCHANGED <<coordVars, tabVars, listenerVars, surfaceVars,
                                              scoreVars, chatVars>>)

(***************************************************************************)
(* getDebugInfo of the chat window: console capture is set up, and the     *)
(* page is asked for in a race with a timer.                               *)
(***************************************************************************)
TimeoutError == "Request timeout after 8 seconds"

\* pageResponse = the response of the Coordinator.
PageResponse(response) == [kind |-> "response", error |-> "", response |-> <<response>>]
\* pageResponse = { error: pageError.message }
PageResponseError(e) == [kind |-> "error", error |-> e, response |-> <<>>]

\* Step 1: SETUP_CONSOLE_LOGGING is sent, without data, and awaited.
DebugSetup(r) ==
    /\ debugInfo.pc \in {"idle", "done"}
    /\ debugInfo.channel = 0
    /\ debugInfo.run < MaxDebugRuns
    /\ Dispatch(r, PlainMsg("SETUP_CONSOLE_LOGGING", FALSE))
    /\ debugInfo' = [debugInfo EXCEPT !.pc = "setup", !.channel = r,
                                      !.run = debugInfo.run + 1]
    /\ UNCHANGED <<tabConsoleLogs, pageLoad>>

\* The Coordinator's steps for the two messages of getDebugInfo.
DebugCoordinatorStep(r) ==
    /\ SetupQuery(r) \/ SetupAttach(r) \/ SetupEnable(r) \/ PageQuery(r)
    /\ UNCHANGED eventVars

\* The response of SETUP_CONSOLE_LOGGING arrives; step 2 waits a second.
DebugSetupAnswered(r) ==
    /\ debugInfo.pc = "setup"
    /\ debugInfo.channel = r
    /\ Close(r)
    /\ debugInfo' = [debugInfo EXCEPT !.pc = "wait", !.channel = 0]
    /\ UNCHANGED <<tabConsoleLogs, pageLoad>>

\* Step 3: the timer of this run's timeoutPromise is set, pageResponse is
\* null, GET_CURRENT_PAGE is sent with includeLogs, and Promise.race of the
\* two is awaited.
DebugAsk(r) ==
    /\ debugInfo.pc = "wait"
    /\ Dispatch(r, Msg("GET_CURRENT_PAGE", TRUE, NoKey, TRUE, FALSE, FALSE))
    /\ debugInfo' = [debugInfo EXCEPT !.pc = "race", !.channel = r,
                                      !.timers[debugInfo.run] = "armed",
                                      !.pageResponse = NoDebugInfo.pageResponse]
    /\ UNCHANGED <<tabConsoleLogs, pageLoad>>

\* Mutant: the timer's rejection is recorded whenever the timer fires.
DebugTimeoutOverrides(k) ==
    /\ debugInfo.timers[k] = "armed"
    /\ debugInfo' = [debugInfo EXCEPT !.timers[k] = "fired",
                                      !.pageResponse = PageResponseError(TimeoutError)]
    /\ UNCHANGED <<tabConsoleLogs, pageLoad>>

\* The timer of run k fires and its timeoutPromise is rejected: the race of
\* that run, when it is still pending, rejects, and the catch block records
\* the error's message.
DebugTimeout(k) ==
    /\ debugInfo.timers[k] = "armed"
    /\ debugInfo' = IF debugInfo.pc = "race" /\ debugInfo.run = k
                    THEN [debugInfo EXCEPT !.timers[k] = "fired", !.pc = "done",
                              !.pageResponse = PageResponseError(TimeoutError)]
                    ELSE [debugInfo EXCEPT !.timers[k] = "fired"]
    /\ UNCHANGED <<tabConsoleLogs, pageLoad>>

\* The response of GET_CURRENT_PAGE arrives: a race that is still pending
\* resolves with it.
DebugAnswered(r) ==
    /\ debugInfo.pc \in {"race", "done"}
    /\ debugInfo.channel = r
    /\ Close(r)
    /\ debugInfo' = IF debugInfo.pc = "race"
                    THEN [debugInfo EXCEPT !.pc = "done", !.channel = 0,
                              !.pageResponse = PageResponse(responses[r][1])]
                    ELSE [debugInfo EXCEPT !.channel = 0]
    /\ UNCHANGED <<tabConsoleLogs, pageLoad>>

DebugNext ==
    \/ ~Returned /\ InitGet
          /\ UNCHANGED <<tabVars, listenerVars, surfaceVars, scoreVars, chatVars, eventVars>>
    \/ ~Returned /\ InitSet
          /\ UNCHANGED <<tabVars, listenerVars, surfaceVars, scoreVars, chatVars, eventVars>>
    \/ \E r \in Reqs :
          ~Returned /\ DebugSetup(r)
          /\ UNCHANGED <<tabVars, listenerVars, surfaceVars, scoreVars, chatVars>>
    \/ \E r \in Reqs :
          ~Returned /\ DebugCoordinatorStep(r)
          /\ UNCHANGED <<tabVars, listenerVars, surfaceVars, scoreVars, chatVars>>
    \/ \E r \in Reqs :
          DebugSetupAnswered(r)
          /\ UNCHANGED <<tabVars, listenerVars, surfaceVars, scoreVars, chatVars>>
    \/ \E r \in Reqs :
          ~Returned /\ DebugAsk(r)
          /\ UNCHANGED <<tabVars, listenerVars, surfaceVars, scoreVars, chatVars>>
    \/ \E k \in 1..MaxDebugRuns :
          DebugTimeout(k)
          /\ UNCHANGED <<coordVars, tabVars, listenerVars, surfaceVars, scoreVars, chatVars>>
    \/ \E r \in Reqs :
          DebugAnswered(r)
          /\ UNCHANGED <<tabVars, listenerVars, surfaceVars, scoreVars, chatVars>>

SpecDebug == Init /\ [][DebugNext]_vars

(***************************************************************************)
(* Properties of handleMessage.                                            *)
(***************************************************************************)

\* The response has a boolean success and, when success is false, a
\* non-empty error string.
WellFormed(resp) ==
    /\ "success" \in resp.fields
    /\ resp.success \in BOOLEAN
    /\ ~resp.success => "error" \in resp.fields /\ resp.error # ""

\* C1: whatever message handleMessage was called with - of any type, known
\* or not, with data or without - every response it passes to sendResponse
\* has a boolean success and, when success is false, a non-empty error; it
\* has responded when it returns, and no exception leaves it.
C1_ResponsesWellFormed ==
    \A r \in Reqs :
        /\ ~escaped[r]
        /\ \A i \in DOMAIN responses[r] : WellFormed(responses[r][i])
        /\ Done(r) => responses[r] # <<>>

\* A message without data, whose handler reads data, was answered through
\* the catch-all.
C1_Witness ==
    \E r \in Reqs :
        /\ DoneOf(r, "SET_API_KEY")
        /\ ~handler[r].msg.hasData
        /\ responses[r] = <<Failure(DataTypeError)>>

\* C2: a SET_API_KEY with a non-empty key k is answered { success: true },
\* and a GET_API_KEY handled while the non-empty key k is stored is answered
\* { success: true, data: k } (the cases in which chrome.storage itself
\* rejects the call aside).
C2_SetThenGet ==
    \A r \in Reqs :
        /\ ( /\ DoneOf(r, "SET_API_KEY")
             /\ handler[r].msg.hasData
             /\ handler[r].msg.apiKey # EmptyKey
             /\ responses[r] # <<Failure(StorageError)>> )
           => responses[r] = <<Ok>>
        /\ ( /\ DoneOf(r, "GET_API_KEY")
             /\ storage \notin {NoKey, EmptyKey}
             /\ responses[r] # <<Failure(StorageError)>> )
           => responses[r] = <<OkData(Data("apiKey", storage, 0, "null", "null"))>>

\* C3: in the step in which a GPT_REQUEST invocation reads the stored
\* credential and none is stored (absent or empty), the invocation returns
\* having responded { success: false, error: e } and having broadcast a
\* GPT_RESPONSE that carries the same e, with no network call issued; e is
\* the configuration error, unless chrome.storage rejected the read itself.
C3_NoCredentialFailsFast ==
    [][\A r \in Reqs :
          ( /\ At(r, "GPT_REQUEST", "start")
            /\ ~Truthy(storage)
            /\ handler'[r].pc # "start" )
          => /\ handler'[r].pc = "done"
             /\ Len(responses'[r]) = 1
             /\ Len(broadcasts'[r]) = 1
             /\ LET resp == responses'[r][1]
                    sent == broadcasts'[r][1]
                IN  /\ resp = Failure(resp.error)
                    /\ resp.error # ""
                    /\ resp.error # StorageError => resp.error = ConfigError
                    /\ sent.type = "GPT_RESPONSE"
                    /\ sent.error = resp.error
             /\ apiCalls'[r] = <<>>]_vars

\* A GPT_REQUEST found no credential stored and was answered with the
\* configuration error, which was also broadcast.
C3_Witness ==
    \E r \in Reqs :
        /\ DoneOf(r, "GPT_REQUEST")
        /\ ~Truthy(storage)
        /\ responses[r] = <<Failure(ConfigError)>>
        /\ Len(broadcasts[r]) = 1
        /\ broadcasts[r][1].error = ConfigError
        /\ apiCalls[r] = <<>>


InFlight(r) == handler[r].pc \notin {"idle", "done"}

\* C4: every message dispatched to handleMessage gets exactly one sendResponse
\* call: never more than one, none missing when handleMessage returns, and
\* handleMessage does return once the calls it awaits settle.
C4_ExactlyOneResponse ==
    /\ [](\A r \in Reqs :
             /\ Len(responses[r]) <= 1
             /\ Done(r) => Len(responses[r]) = 1
             /\ InFlight(r) => responses[r] = <<>>)
    /\ \A r \in Reqs : InFlight(r) ~> Done(r)

\* An invocation with three awaits (SETUP_CONSOLE_LOGGING through attach and
\* Runtime.enable) returned with its one response.
C4_Witness ==
    \E r \in Reqs :
        /\ DoneOf(r, "SETUP_CONSOLE_LOGGING")
        /\ handler[r].tab \in logTabs
        /\ Len(responses[r]) = 1

\* C5: a GPT_REQUEST invocation that has returned has issued exactly one
\* GPT_RESPONSE broadcast and exactly one direct response, with the same
\* outcome: the same result data on success, the same error text on failure.
C5_OneBroadcastSameOutcome ==
    \A r \in Reqs :
        DoneOf(r, "GPT_REQUEST") =>
            /\ Len(broadcasts[r]) = 1
            /\ Len(responses[r]) = 1
            /\ LET resp == responses[r][1]
                   sent == broadcasts[r][1]
               IN  /\ sent.type = "GPT_RESPONSE"
                   /\ sent.target = "gpt-popup"
                   /\ IF resp.success
                      THEN /\ resp = OkData(resp.data)
                           /\ sent.error = ""
                           /\ sent.data = resp.data
                           /\ resp.data # NoData
                      ELSE /\ resp = Failure(resp.error)
                           /\ sent.error = resp.error
                           /\ sent.data = NoData

\* The API call of a GPT_REQUEST succeeded; its result is both the response
\* and the broadcast.
C5_Witness ==
    \E r \in Reqs :
        /\ DoneOf(r, "GPT_REQUEST")
        /\ Len(apiCalls[r]) = 1
        /\ Len(responses[r]) = 1
        /\ responses[r][1].success
        /\ Len(broadcasts[r]) = 1
        /\ broadcasts[r][1].data = responses[r][1].data

\* The direct response of a GPT_REQUEST when its broadcast is delivered:
\* the API result if the API call succeeded, the error otherwise.
NormalResponse(apiResult, failure) ==
    IF failure = "" THEN OkData(apiResult) ELSE Failure(failure)

\* C7: when the send of a broadcast is rejected or throws because nobody
\* listens, the invocation that broadcast still makes its normal direct
\* response, and the failure of the send shows in no response and leaves
\* handleMessage in no exception.
C7_BroadcastFailureSwallowed ==
    \A r \in Reqs :
        ( /\ Done(r)
          /\ \E i \in DOMAIN broadcasts[r] :
                 broadcasts[r][i].outcome \in {"rejected", "threw"} )
        => /\ ~escaped[r]
           /\ Len(broadcasts[r]) = 1
           /\ responses[r] =
                  <<NormalResponse(broadcasts[r][1].data, broadcasts[r][1].error)>>
           /\ responses[r][1].error # SendError
           /\ Len(apiCalls[r]) = 1 /\ broadcasts[r][1].error # UpstreamError
                  => responses[r][1].success

\* A GPT_REQUEST succeeded although the send of its broadcast threw.
C7_Witness ==
    \E r \in Reqs :
        /\ DoneOf(r, "GPT_REQUEST")
        /\ Len(broadcasts[r]) = 1
        /\ broadcasts[r][1].outcome = "threw"
        /\ Len(responses[r]) = 1
        /\ responses[r][1].success


\* C6 as stated: a listener has acted on a message only if the message
\* carries no target or carries the listener's own name. The chat windows
\* keep to it; the Coordinator's listener does not look at the target.
C6_TargetIsolation ==
    \A l \in Listeners :
        heard[l] = "acted" =>
            inbox.target = NoTarget \/ inbox.target = NameOf(l)

(***************************************************************************)
(* Tab resolution (SpecTabs).                                              *)
(***************************************************************************)
Resolved == resolvedBy # "none"

TabsOf(tabs) == {tabs[i] : i \in DOMAIN tabs}

\* A page of an extension or of the browser, by the scheme of its URL.
ExtensionPage(tab) ==
    /\ Len(tab.url) >= 2
    /\ tab.url[1] \in {"chrome-extension", "chrome", "moz-extension"}
    /\ tab.url[2] = "://"

ActiveWebTabs(tabs) == {t \in TabsOf(tabs) : t.active /\ ~ExtensionPage(t)}
QualifyingTabs(tabs) == {t \in TabsOf(tabs) : ~ExtensionPage(t)}

\* C8: when exactly one tab of the tab set is both active and not an
\* extension page, each of the three handlers selects that tab, whatever
\* the lastAccessed values are.
C8_SingleActiveWebTabSelected ==
    (Resolved /\ Cardinality(ActiveWebTabs(tabSet)) = 1)
        => selected \in ActiveWebTabs(tabSet)

\* The active web tab is selected although another web tab was accessed
\* more recently.
C8_Witness ==
    /\ Resolved
    /\ Cardinality(ActiveWebTabs(tabSet)) = 1
    /\ selected \in ActiveWebTabs(tabSet)
    /\ \E t \in QualifyingTabs(tabSet) :
           OrZero(t.lastAccessed) > OrZero(selected.lastAccessed)

\* C9: when no tab is both active and not an extension page but some tab is
\* not an extension page, the tab selected is not an extension page and no
\* such tab has a greater lastAccessed, a missing one counting as 0.
C9_MostRecentlyAccessedSelected ==
    ( /\ Resolved
      /\ ActiveWebTabs(tabSet) = {}
      /\ QualifyingTabs(tabSet) # {} )
    => /\ selected \in QualifyingTabs(tabSet)
       /\ \A t \in QualifyingTabs(tabSet) :
              OrZero(selected.lastAccessed) >= OrZero(t.lastAccessed)

\* Of two inactive web tabs the second of the query result, accessed more
\* recently, is selected.
C9_Witness ==
    /\ Resolved
    /\ ActiveWebTabs(tabSet) = {}
    /\ selected \in QualifyingTabs(tabSet)
    /\ \E t \in QualifyingTabs(tabSet) :
           /\ t.id < selected.id
           /\ OrZero(t.lastAccessed) < OrZero(selected.lastAccessed)

\* C10: no handler selects a tab whose URL starts with chrome-extension://,
\* chrome:// or moz-extension://.
C10_NeverExtensionPage ==
    Resolved => selected = NoTab \/ ~ExtensionPage(selected)

\* The only active tab is an extension page, and the tab selected is an
\* inactive web tab.
C10_Witness ==
    /\ Resolved
    /\ \E t \in TabsOf(tabSet) : t.active /\ ExtensionPage(t)
    /\ \A t \in TabsOf(tabSet) : t.active => ExtensionPage(t)
    /\ selected \in QualifyingTabs(tabSet)
    /\ ~selected.active


NoPageErrors == {NoPageSetupError, NoPageLogsError, NoActiveTabError}

\* C11: when the tab set holds no tab that is not an extension page, each
\* of the three page-scoped handlers responds once, with success false and
\* its "no web page / no tab found" error, and no exception leaves it.
C11_NoQualifyingTabFails ==
    (Resolved /\ QualifyingTabs(tabSet) = {})
        => /\ selected = NoTab
           /\ tabReply.thrown = <<>>
           /\ Len(tabReply.resps) = 1
           /\ ~tabReply.resps[1].success
           /\ "error" \in tabReply.resps[1].fields
           /\ tabReply.resps[1].error \in NoPageErrors
           /\ tabReply.resps[1].error # ""

\* The only tabs open are pages of the extension and of the browser, one
\* of them active, and the handler answered with its error.
C11_Witness ==
    /\ Resolved
    /\ Len(tabSet) = MaxTabs
    /\ QualifyingTabs(tabSet) = {}
    /\ \E t \in TabsOf(tabSet) : t.active
    /\ Len(tabReply.resps) = 1
    /\ tabReply.resps[1].error \in NoPageErrors


(***************************************************************************)
(* Properties of the audit runner.                                         *)
(***************************************************************************)
IsAudit(r) == handler[r].msg.type \in AuditTypes
Measuring(r) == IsAudit(r) /\ handler[r].pc \in {"query", "create", "attach", "measure", "teardown"}

\* C12: in the step in which runAudit is called while an earlier runAudit
\* is in flight, the call fails with the "already running" error, it opens
\* no tab and attaches no debugger, it leaves the flag of the earlier call
\* alone, and it has produced no result, mock or other, when it fails.
C12_SecondRunAuditFailsAtOnce ==
    [][\A r \in Reqs :
          ( /\ IsAudit(r)
            /\ handler[r].pc = "start"
            /\ handler[r].msg.hasData
            /\ isRunning
            /\ handler'[r] # handler[r] )
          => /\ handler'[r].pc = "fallback"
             /\ handler'[r].auditError = AlreadyRunningError
             /\ handler'[r].tempTab = "none"
             /\ ~handler'[r].attached
             /\ isRunning'
             /\ responses'[r] = <<>>]_vars

\* The second runAudit has failed while the first is measuring, its
\* debugger attached to its temporary tab.
C12_Witness ==
    \E r, q \in Reqs :
        /\ r # q
        /\ IsAudit(r)
        /\ handler[r].pc = "fallback"
        /\ handler[r].auditError = AlreadyRunningError
        /\ handler[r].tempTab = "none"
        /\ Measuring(q)
        /\ handler[q].attached
        /\ isRunning

\* C13 as stated: once runLighthouseAudit has settled, the debugger is
\* detached and the temporary tab is closed.
C13_TeardownOnEveryPath ==
    \A r \in Reqs :
        (IsAudit(r) /\ handler[r].pc \in {"fallback", "done"})
            => handler[r].tempTab # "open" /\ ~handler[r].attached

MetricNames == {"loadTime", "domContentLoaded", "firstPaint", "firstContentfulPaint",
                "largestContentfulPaint", "cumulativeLayoutShift"}
ScoreNames == {"performance", "accessibility", "bestPractices", "seo", "overall"}

\* An AuditResult with url, title, timestamp, the six metrics and the five
\* scores populated, and overall within 0..100.
WellFormedAuditResult(res) ==
    /\ {"url", "title", "timestamp", "metrics", "scores"} \subseteq DOMAIN res
    /\ res.url # "" /\ res.title # "" /\ res.timestamp # ""
    /\ MetricNames \subseteq DOMAIN res.metrics
    /\ \A n \in MetricNames : res.metrics[n] \in Int
    /\ ScoreNames \subseteq DOMAIN res.scores
    /\ \A n \in ScoreNames : res.scores[n] \in Int
    /\ res.scores.overall \in 0..100

\* C14: an audit request whose runAudit call failed, for whatever reason,
\* is answered once, with success true and the result of getMockResults,
\* which is well formed.
C14_FallbackToMock ==
    \A r \in Reqs :
        (IsAudit(r) /\ Done(r) /\ handler[r].auditError # "")
            => /\ Len(responses[r]) = 1
               /\ responses[r][1].success
               /\ responses[r][1] = OkResults(responses[r][1].data)
               /\ responses[r][1].data.title = "Mock Lighthouse Report"
               /\ WellFormedAuditResult(responses[r][1].data)

\* The debugger could not be attached, and the request without a url was
\* answered with a mock result.
C14_Witness ==
    \E r \in Reqs :
        /\ IsAudit(r) /\ Done(r)
        /\ handler[r].auditError = AttachError
        /\ ~handler[r].msg.hasUrl
        /\ Len(responses[r]) = 1
        /\ responses[r][1].success
        /\ responses[r][1].data.url = "tab-undefined"

\* C15 as stated: an audit request handled while another audit is in flight
\* is answered with success false.
C15_ConcurrentAuditRejected ==
    \A r \in Reqs :
        (IsAudit(r) /\ Done(r) /\ handler[r].auditError = AlreadyRunningError)
            => /\ Len(responses[r]) = 1
               /\ ~responses[r][1].success


(***************************************************************************)
(* Properties of the front surfaces.                                       *)
(***************************************************************************)
\* C16 as stated: the stored credential is written by the Coordinator only;
\* no front surface writes it.
C16_OnlyCoordinatorWritesCredential == writers \subseteq {Coordinator}

\* C18 as stated: the API Client is invoked by the Coordinator only; a front
\* surface gets a completion through GPT_REQUEST and never calls the client
\* itself.
C18_OnlyCoordinatorCallsClient == callers \subseteq {Coordinator}

(***************************************************************************)
(* Properties of the credential and of console capture.                    *)
(***************************************************************************)
\* SET_API_KEY was the only message handled, after initialisation, and its
\* response was success.
SetApiKeyHandledAlone(r) ==
    /\ DoneOf(r, "SET_API_KEY")
    /\ handler[r].msg.hasData
    /\ responses[r] = <<Ok>>
    /\ init.pc = "done"
    /\ \A q \in Reqs \ {r} : handler[q].pc = "idle"

\* C17 as stated: after a handled SET_API_KEY, with an empty or a
\* whitespace-only key too, the credential of the API Client is the stored
\* credential.
C17_ClientMirrorsStoredCredential ==
    \A r \in Reqs :
        SetApiKeyHandledAlone(r) => GetStoredApiKey(gptKey) = GetStoredApiKey(storage)

\* C19 as stated: SETUP_CONSOLE_LOGGING answers success = true only when
\* capture was set up for the tab; a failed attach or Runtime.enable gives
\* success = false.
C19_SetupSuccessMeansCapture ==
    \A r \in Reqs :
        (/\ DoneOf(r, "SETUP_CONSOLE_LOGGING")
         /\ responses[r] # <<>>
         /\ responses[r][1].success)
            => handler[r].tab \in logTabs

(***************************************************************************)
(* Properties of the scores.                                               *)
(***************************************************************************)
CategoryNames == {"performance", "accessibility", "bestPractices", "seo"}

CategoryScoresInRange(res) ==
    \A c \in CategoryNames :
        /\ res.scores[c] \in 0..100
        /\ res.categories[c] \in 0..100

\* C20 as stated: every category score of an audit result (performance,
\* accessibility, bestPractices, seo) lies in 0..100, on the live path and
\* on the mock path.
C20_CategoryScoresInRange ==
    auditResult # <<>> => CategoryScoresInRange(auditResult)

\* The penalty of a metric, in two-hundredths of a point: nothing up to the
\* threshold, above it the amount, at most the cap.
CappedPenalty(over, amount, cap) ==
    IF over THEN (IF amount > cap * 200 THEN cap * 200 ELSE amount) ELSE 0

\* The sum of the four penalties, in two-hundredths of a point: a point per
\* 100 ms of first and of largest contentful paint over 1800 and 2500 ms, a
\* point per 200 ms of load time over 3000 ms, a hundred points per unit of
\* layout shift when it is over 0.1.
PenaltySum(m) ==
    CappedPenalty(m.firstContentfulPaint > 1800, (m.firstContentfulPaint - 1800) * 2, 30)
    + CappedPenalty(m.largestContentfulPaint > 2500, (m.largestContentfulPaint - 2500) * 2, 25)
    + CappedPenalty(m.loadTime > 3000, m.loadTime - 3000, 25)
    + CappedPenalty(m.cumulativeLayoutShift > 100, m.cumulativeLayoutShift * 20, 20)

\* No metric is over its threshold.
WithinThresholds(m) ==
    /\ m.firstContentfulPaint <= 1800
    /\ m.largestContentfulPaint <= 2500
    /\ m.loadTime <= 3000
    /\ m.cumulativeLayoutShift <= 100

\* p is x / 200 rounded to the nearest integer, a half upwards.
RoundsTo(p, x) == 200 * p - 100 <= x /\ x < 200 * p + 100

\* C21: calculatePerformanceScore returns an integer in 0..100: 100 when no
\* metric is over its threshold, otherwise 100 less the sum of the penalties
\* of the metrics over threshold, each capped on its own (30, 25, 25, 20),
\* rounded, and never below 0.
C21_PerformanceScore ==
    (auditResult # <<>> /\ scoreInput.path = "live") =>
        LET m == scoreInput.webVitals
            performance == auditResult.scores.performance
            exact == 100 * 200 - PenaltySum(m)
        IN  /\ performance \in 0..100
            /\ WithinThresholds(m) => performance = 100
            /\ IF exact >= 0 THEN RoundsTo(performance, exact) ELSE performance = 0

\* A live result with one penalty at its cap, another below its cap, and a
\* score strictly between 0 and 100.
C21_Witness ==
    /\ auditResult # <<>>
    /\ scoreInput.path = "live"
    /\ scoreInput.webVitals.firstContentfulPaint = 5000
    /\ scoreInput.webVitals.cumulativeLayoutShift = 150
    /\ auditResult.scores.performance \in 1..99

(***************************************************************************)
(* Properties of the audit handler's answer.                               *)
(***************************************************************************)
\* C22 as stated: no failure of an operation a handler started is left
\* uncaught: neither an exception out of handleMessage nor the rejection of
\* an operation that is not awaited (the broadcast, the opening of the
\* result window).
C22_NothingEscapes ==
    \A r \in Reqs :
        /\ ~escaped[r]
        /\ handler[r].resultsWindow # "rejected"

\* The audit request of the channel was answered with an AuditResult.
AuditAnswered(r) ==
    /\ Done(r)
    /\ handler[r].msg.type \in AuditTypes
    /\ responses[r] # <<>>
    /\ responses[r][1].success

\* C23 as stated: an audit request that produces an AuditResult has it
\* broadcast as an audit-result message addressed to "gpt-popup", besides
\* the response to the caller.
C23_AuditResultBroadcast ==
    \A r \in Reqs :
        AuditAnswered(r) =>
            \E i \in DOMAIN broadcasts[r] :
                /\ broadcasts[r][i].type = "LIGHTHOUSE_RESULT"
                /\ broadcasts[r][i].target = "gpt-popup"

\* The fields of the response envelope.
EnvelopeFields == {"success", "data", "error"}

\* C24 as stated: a response of the Coordinator has no field besides
\* success, data and error; an audit result is carried in data.
C24_EnvelopeFieldsOnly ==
    \A r \in Reqs :
        \A i \in DOMAIN responses[r] :
            responses[r][i].fields \subseteq EnvelopeFields

(***************************************************************************)
(* Properties of the audit runner's last result.                           *)
(***************************************************************************)
\* runAudit of the channel returns its result in this step.
RunAuditReturns(r) ==
    /\ handler[r].msg.type \in AuditTypes
    /\ handler[r].pc = "teardown"
    /\ handler'[r].pc = "done"

\* C25: LighthouseService has one slot for the last result.  When runAudit
\* succeeds, getLastResults returns the result of that audit; a runAudit that
\* fails or is turned down by the guard, and a call of getMockResults, leave
\* the slot as it was.
C25_LastResultSlot ==
    [][\A r \in Reqs :
          /\ RunAuditReturns(r) =>
                GetLastResults(results') = responses'[r][1].data
          /\ (\A q \in Reqs : ~RunAuditReturns(q)) => results' = results]_vars

\* An audit was answered from getMockResults after its runAudit failed,
\* while the slot holds the result of an earlier audit.
C25_Witness ==
    \E r \in Reqs :
        /\ AuditAnswered(r)
        /\ handler[r].auditError # ""
        /\ GetLastResults(results) # NoResults
        /\ GetLastResults(results) # responses[r][1].data

(***************************************************************************)
(* Properties of concurrent chat requests.                                 *)
(***************************************************************************)
\* The invocation of the channel is inside gptService.sendRequest.
InApiCall(r) == At(r, "GPT_REQUEST", "net")

\* C26: chat requests are not serialized.  An invocation that has reached
\* gptService.sendRequest enters it whatever the other invocation does, also
\* while that one is inside the call, and a call that is in flight can
\* settle and be answered whichever call was entered first: the responses
\* come in either order.
C26_ChatRequestsNotSerialized ==
    \A r \in Reqs :
        /\ At(r, "GPT_REQUEST", "send") =>
              ENABLED (GptSend(r) /\ UNCHANGED <<tabVars, listenerVars, surfaceVars, scoreVars, chatVars, eventVars>>)
        /\ InApiCall(r) =>
              ENABLED (GptNet(r) /\ UNCHANGED <<tabVars, listenerVars, surfaceVars, scoreVars, chatVars, eventVars>>)

\* Two GPT_REQUEST invocations are inside the API client call at once.
C26_Witness ==
    \E r, q \in Reqs : r # q /\ InApiCall(r) /\ InApiCall(q)

\* C29: a GPT_REQUEST whose handling starts after a SET_API_KEY completed is
\* sent with the credential that SET_API_KEY stored, whatever GPT_REQUESTs
\* are in flight.  The invocation ran beside no SET_API_KEY and not beside
\* initializeGPTService, so that the credential it read (handler[r].apiKey)
\* is the one the last completed write left; the call it made carries it.
C29_SentWithStoredCredential ==
    \A r \in Reqs :
        (InApiCall(r) /\ ~handler[r].besideSetKey) =>
            apiCalls[r][1] = handler[r].apiKey

(***************************************************************************)
(* Properties of SET_API_KEY.                                              *)
(***************************************************************************)
\* C30: a SET_API_KEY that is answered success = false has left the stored
\* credential as it was.
C30_FailedSetLeavesStore ==
    \A r \in Reqs :
        (DoneOf(r, "SET_API_KEY") /\ ~responses[r][1].success) =>
            ~handler[r].wrote

(***************************************************************************)
(* Properties of the conversation.                                         *)
(***************************************************************************)
\* C27: the history of a conversation never holds more turns than the cap,
\* and the turns it holds are the ones recorded last, in the order in which
\* they were recorded: with turnCount turns recorded, the history is the
\* turns turnCount - Len + 1 .. turnCount, and nothing is dropped while the
\* cap is not reached.
C27_HistoryCapped ==
    \A c \in ConversationIds :
        LET kept == Len(history[c])
        IN  /\ kept <= HistoryCap
            /\ kept = Min(HistoryCap, turnCount[c])
            /\ \A i \in 1..kept : history[c][i].n = turnCount[c] - kept + i

\* More turns than the cap were recorded in one conversation, which holds
\* the cap's number of them.
C27_Witness ==
    \E c \in ConversationIds :
        turnCount[c] > HistoryCap /\ Len(history[c]) = HistoryCap

\* C28: for a chat request of the chat window, exactly one reply entry is
\* appended to the message list once the broadcast and the direct response
\* of the request have both been delivered, on success and on failure.
C28_OneReplyEntry ==
    [][\A r \in Reqs :
          (/\ r \in awaiting /\ r \notin awaiting'
           /\ handler[r].msg.type = "GPT_REQUEST"
           /\ Len(broadcasts[r]) = 1
           /\ broadcasts[r][1].outcome = "delivered")
          => Len(messages') = Len(messages) + 1]_vars

(***************************************************************************)
(* Properties of GET_CURRENT_PAGE.                                         *)
(***************************************************************************)
\* The invocation has retrieved the console logs of a tab.
LogsRetrieved(r) == handler[r].logs # "null"

\* C31: in GET_CURRENT_PAGE the console logs are retrieved only for a tab
\* that was chosen and a request with includeLogs, the content script is
\* injected only for a tab that was chosen and a request with
\* includeContent, and the answer carries null for the feature that was
\* not asked for.  A request with both flags has both done, whichever
\* comes first.
C31_PageFeaturesGated ==
    \A r \in Reqs :
        handler[r].msg.type = "GET_CURRENT_PAGE" =>
            LET m == handler[r].msg
            IN  /\ LogsRetrieved(r) =>
                       m.hasData /\ m.includeLogs /\ handler[r].tab # 0
                /\ handler[r].pc = "content" =>
                       m.hasData /\ m.includeContent /\ handler[r].tab # 0
                /\ (Done(r) /\ responses[r][1].success) =>
                       /\ (m.hasData /\ m.includeLogs) <=> responses[r][1].data.logs # "null"
                       /\ ~(m.hasData /\ m.includeContent) =>
                              responses[r][1].data.content = "null"

\* One request was answered with logs and without content, while another
\* was answered with content and without logs.
C31_Witness ==
    \E r, q \in Reqs :
        /\ DoneOf(r, "GET_CURRENT_PAGE") /\ responses[r][1].success
        /\ responses[r][1].data.logs # "null"
        /\ responses[r][1].data.content = "null"
        /\ handler[q].msg.type = "GET_CURRENT_PAGE"
        /\ handler[q].pc = "content"
        /\ handler[q].msg.includeContent /\ ~handler[q].msg.includeLogs
        /\ handler[q].logs = "null"

(***************************************************************************)
(* Properties of the audit guard.                                          *)
(***************************************************************************)
\* C33: isRunning is true exactly while a runAudit that passed the guard is
\* in flight, and there is at most one.  Once the call has settled, by its
\* result or by a failure of URL resolution, tab creation, attach, metric
\* collection or teardown, the flag is false, so that the next runAudit
\* passes the guard.
C33_FlagClearedWhenSettled ==
    /\ isRunning <=> \E r \in Reqs : Measuring(r)
    /\ \A r, q \in Reqs : (Measuring(r) /\ Measuring(q)) => r = q
    /\ \A r \in Reqs :
          (IsAudit(r) /\ handler[r].pc = "start" /\ handler[r].msg.hasData
              /\ \A q \in Reqs : ~Measuring(q))
          => ~AuditGuard(isRunning)

\* A runAudit has failed at its teardown, and the audit requested after it
\* has passed the guard and is in flight.
C33_Witness ==
    \E r, q \in Reqs :
        /\ IsAudit(r) /\ handler[r].pc = "fallback"
        /\ handler[r].auditError = DetachError
        /\ Measuring(q)
        /\ isRunning

(***************************************************************************)
(* Properties of the default case.                                         *)
(***************************************************************************)
\* C39: the step that handles a message of unknown type answers
\* { success: false, error: "Unknown message type" }, once, and leaves the
\* stored credential, the API client's credential, the captured console
\* logs, the audit flag and the last audit result as they were.
C39_UnknownTypeChangesNothing ==
    [][\A r \in Reqs :
          (At(r, "UNKNOWN_TYPE", "start") /\ handler'[r] # handler[r])
          => /\ handler'[r].pc = "done"
             /\ responses'[r] = <<Failure("Unknown message type")>>
             /\ broadcasts'[r] = <<>>
             /\ storage' = storage
             /\ gptKey' = gptKey
             /\ logTabs' = logTabs
             /\ isRunning' = isRunning
             /\ results' = results]_vars

\* A message of unknown type was answered while console logs are captured.
C39_Witness ==
    \E r \in Reqs :
        /\ DoneOf(r, "UNKNOWN_TYPE")
        /\ responses[r] = <<Failure(UnknownTypeError)>>
        /\ logTabs # {}

(***************************************************************************)
(* Properties of the chat window's isLoading.                              *)
(***************************************************************************)
\* The channels of the chat window's own GPT_REQUESTs that are unanswered.
OwnRequests == {r \in awaiting : handler[r].msg.type = "GPT_REQUEST"}

\* C35: once the response of the chat window's request, and for a
\* GPT_REQUEST its broadcast, have been delivered, isLoading is false: on
\* success, on failure and for the message "debug".
C35_LoadingEnds ==
    [][\A r \in Reqs :
          (/\ r \in awaiting /\ r \notin awaiting'
           /\ handler[r].msg.type = "GPT_REQUEST" =>
                 /\ Len(broadcasts[r]) = 1
                 /\ broadcasts[r][1].outcome = "delivered")
          => ~isLoading']_vars

\* C36: the chat window has at most one GPT_REQUEST unanswered, and while
\* it has one, isLoading is true.
C36_OneOutstandingRequest ==
    /\ Cardinality(OwnRequests) <= 1
    /\ OwnRequests # {} => isLoading

(***************************************************************************)
(* Properties of the copies of tab resolution.                             *)
(***************************************************************************)
\* C38: for every tab set, the tab resolutions of GET_CURRENT_PAGE,
\* SETUP_CONSOLE_LOGGING and API_GET_CONSOLE_LOGS choose the same tab or
\* all choose none, and the tab a handler has resolved is the one the
\* other two would choose.
C38_CopiesSelectSameTab ==
    /\ SelectTabSetupLogging(tabSet) = SelectTabCurrentPage(tabSet)
    /\ SelectTabConsoleLogs(tabSet) = SelectTabCurrentPage(tabSet)
    /\ resolvedBy # "none" =>
          /\ selected = SelectTabCurrentPage(tabSet)
          /\ selected = SelectTabSetupLogging(tabSet)
          /\ selected = SelectTabConsoleLogs(tabSet)

\* SETUP_CONSOLE_LOGGING has resolved two web tabs, none of them active, to
\* the second one of the query.
C38_Witness ==
    /\ resolvedBy = "SETUP_CONSOLE_LOGGING"
    /\ Len(FilterWebTabs(tabSet)) = 2
    /\ selected # NoTab
    /\ ~selected.active
    /\ selected = FilterWebTabs(tabSet)[2]

(***************************************************************************)
(* Properties of the captured console logs.                                *)
(***************************************************************************)
\* C32: the list of captured console logs of a tab never holds more than
\* 50 entries.
C32_AtMostFiftyLogs == Len(tabConsoleLogs.entries) <= LogCap

(***************************************************************************)
(* Properties of waitForPageLoad.                                          *)
(***************************************************************************)
\* The promise of waitForPageLoad was resolved 2000 ms or more after the
\* load event, or 10000 ms or more after the call.
ResolvedInTime(w) ==
    \/ w.loadedAt >= 0 /\ w.resolvedAt >= w.loadedAt + SettleDelay
    \/ w.resolvedAt >= w.startedAt + FallbackTimeout

\* C34: waitForPageLoad always resolves and never rejects.  The promise is
\* pending or resolved and nothing else; it is resolved after the load
\* event was observed, or, without one, when the fallback timeout has
\* elapsed; and a promise that is pending is resolved in the end.
C34_WaitAlwaysResolves ==
    /\ [](/\ pageLoad.pc \in {"idle", "waiting", "resolved"}
          /\ pageLoad.pc = "resolved" => ResolvedInTime(pageLoad)
          /\ (pageLoad.pc = "resolved" /\ pageLoad.loadedAt < 0) =>
                 pageLoad.resolvedAt >= pageLoad.startedAt + FallbackTimeout)
    /\ (pageLoad.pc = "waiting") ~> (pageLoad.pc = "resolved")

\* No load event was observed and the promise is resolved.
C34_Witness ==
    /\ pageLoad.pc = "resolved"
    /\ pageLoad.loadedAt < 0
    /\ pageLoad.fallback = "fired"

(***************************************************************************)
(* Properties of getDebugInfo.                                             *)
(***************************************************************************)
\* C37: GET_CURRENT_PAGE is raced against the timer of the run.  When the
\* timer fires while the race is pending, the race ends with the timeout
\* error recorded as the page result; when the response arrives while the
\* race is pending, the response is the page result; and a timer that
\* fires when its race is settled changes nothing of the page result.
C37_PageRequestRacedWithTimeout ==
    [][/\ \A k \in 1..MaxDebugRuns :
             debugInfo'.timers[k] # debugInfo.timers[k] /\ debugInfo.timers[k] = "armed" =>
                IF debugInfo.pc = "race" /\ debugInfo.run = k
                THEN /\ debugInfo'.pc = "done"
                     /\ debugInfo'.pageResponse
                            = PageResponseError("Request timeout after 8 seconds")
                ELSE /\ debugInfo'.pc = debugInfo.pc
                     /\ debugInfo'.pageResponse = debugInfo.pageResponse
       /\ \A r \in Reqs :
             (debugInfo.pc = "race" /\ debugInfo.channel = r /\ Done(r)
                 /\ handler'[r].pc = "idle") =>
             /\ debugInfo'.pc = "done"
             /\ debugInfo'.pageResponse = PageResponse(responses[r][1])
       /\ (debugInfo.pc = "done" /\ debugInfo'.pc = "done") =>
             debugInfo'.pageResponse = debugInfo.pageResponse]_vars

\* The response was used, and the timer of the run has fired after it.
C37_Witness ==
    /\ debugInfo.pc = "done"
    /\ debugInfo.pageResponse.kind = "response"
    /\ debugInfo.timers[debugInfo.run] = "fired"

====
